-------------------------- MODULE TripFilingProofs --------------------------
(* What TripFiling promises, for every set of trips, emails, segments,        *)
(* documents and expenses. The foreign keys and "one linked expense" are      *)
(* inductive together; the action properties follow from the types.           *)
EXTENDS TripFiling, TLAPS

USE MarkersAreNoRows, EmailsAreGiven

Inv == TypeOK /\ OneLinkedExpense

LEMMA InitInv == Init => Inv
  BY DEF Init, Inv, TypeOK, OneLinkedExpense, Filed, Stored, Recorded

\* Deleting segments keeps the tables consistent.
LEMMA DropKeeps ==
  ASSUME Inv, NEW lost \in SUBSET Seg, DropSegments(lost),
         pending' \subseteq Email, linking' \in Email \cup {NoEmail}
  PROVE  Inv'
  <1>1. TypeOK'
    <2>1. segTrip' \in [Seg -> trips' \cup {NoTrip}] /\ Filed' = Filed \ lost
      BY DEF Inv, TypeOK, DropSegments, KeepSegments, Filed
    <2>2. docTrip' = docTrip /\ docEmail' = docEmail
      BY DEF Inv, TypeOK, DropSegments, KeepDocs
    <2>3. docSeg' \in [Doc -> Filed' \cup {NoSeg}]
      BY <2>1 DEF Inv, TypeOK, DropSegments, KeepDocs
    <2>4. \A d \in Doc : docSeg[d] = NoSeg => docSeg'[d] = NoSeg
      BY DEF DropSegments, KeepDocs
    <2>5. expTrip' = expTrip
      BY DEF Inv, TypeOK, DropSegments, KeepExpenses
    <2>6. expSeg' \in [Expense -> Filed' \cup {NoSeg}]
      BY <2>1 DEF Inv, TypeOK, DropSegments, KeepExpenses
    <2>7. \A x \in Expense : expSeg[x] = NoSeg => expSeg'[x] = NoSeg
      BY DEF DropSegments, KeepExpenses
    <2>8. priced' \subseteq Filed' \cap Carried
      BY <2>1 DEF Inv, TypeOK, DropSegments, KeepSegments
    <2>9. trips' = trips
      BY DEF DropSegments
    <2> QED
      BY <2>1, <2>2, <2>3, <2>4, <2>5, <2>6, <2>7, <2>8, <2>9
      DEF Inv, TypeOK, Stored, Recorded
  <1>2. OneLinkedExpense'
    BY DEF Inv, OneLinkedExpense, DropSegments, KeepExpenses
  <1> QED BY <1>1, <1>2 DEF Inv

-----------------------------------------------------------------------------
(* Steps that delete no row and write none of what Inv says of expenses.      *)

LEMMA ParseKeeps ==
  ASSUME Inv, NEW e \in Email, FileDrafts(e) \/ FileNothing(e)
  PROVE  Inv'
  <1>1. /\ docTrip' \in [Doc -> trips \cup {NoTrip, Absent}]
        /\ docEmail' \in [Doc -> Email \cup {NoEmail}]
        /\ docSeg' = docSeg
        /\ \A d \in Doc \ Stored' : d \in Doc \ Stored /\ docEmail'[d] = docEmail[d]
    BY DEF FileDrafts, FileNothing, Persist, Inv, TypeOK, Stored
  <1>2. CASE FileDrafts(e)
    <2> DEFINE fresh == Drafts[e] \ Filed
    <2>1. PICK choice \in [fresh -> Trip] :
            /\ segTrip' = [s \in Seg |-> IF s \in fresh THEN choice[s] ELSE segTrip[s]]
            /\ trips' = trips \cup {choice[s] : s \in fresh}
      BY <1>2 DEF FileDrafts
    <2>2. trips \subseteq trips' /\ trips' \subseteq Trip
      BY <2>1 DEF Inv, TypeOK
    <2>3. segTrip' \in [Seg -> trips' \cup {NoTrip}]
      BY <2>1, <2>2 DEF Inv, TypeOK
    <2>4. Filed' = Filed \cup fresh
      BY <2>1 DEF Inv, TypeOK, Filed
    <2>5. priced' \subseteq Filed' \cap Carried
      BY <1>2, <2>4 DEF FileDrafts, Inv, TypeOK
    <2>6. pending' \subseteq Email /\ linking' \in Email \cup {NoEmail}
      BY <1>2 DEF FileDrafts, Inv, TypeOK
    <2>7. UNCHANGED <<expTrip, expSeg>>
      BY <1>2 DEF FileDrafts, expenses
    <2>8. TypeOK'
      BY <1>1, <2>2, <2>3, <2>4, <2>5, <2>6, <2>7 DEF Inv, TypeOK, Recorded
    <2> QED BY <2>7, <2>8 DEF Inv, OneLinkedExpense
  <1>3. CASE FileNothing(e)
    <2>1. /\ UNCHANGED <<trips, segTrip, priced, expTrip, expSeg, linking>>
          /\ pending' \subseteq Email
      BY <1>3 DEF FileNothing, segments, expenses, Inv, TypeOK
    <2>2. TypeOK'
      BY <1>1, <2>1 DEF Inv, TypeOK, Filed, Recorded
    <2> QED BY <2>1, <2>2 DEF Inv, OneLinkedExpense
  <1> QED BY <1>2, <1>3

LEMMA AutolinkKeeps == Inv /\ Autolink => Inv'
  <1> SUFFICES ASSUME Inv, Autolink PROVE Inv'
    OBVIOUS
  <1> DEFINE found == {d \in Unlinked(linking) : Names[d] \in FiledFrom(linking)}
  <1>1. /\ docSeg' = [d \in Doc |-> IF d \in found THEN Names[d] ELSE docSeg[d]]
        /\ docTrip' = [d \in Doc |-> IF d \in found THEN segTrip[Names[d]] ELSE docTrip[d]]
        /\ linking' = NoEmail
        /\ UNCHANGED <<trips, segTrip, priced, docEmail, expTrip, expSeg, pending>>
    BY DEF Autolink, segments, expenses
  <1>2. \A d \in found : d \in Stored /\ Names[d] \in Filed /\ segTrip[Names[d]] \in trips
    BY DEF Unlinked, FiledFrom, Filed, Stored, Inv, TypeOK
  <1>3. docSeg' \in [Doc -> Filed \cup {NoSeg}]
    BY <1>1, <1>2 DEF Inv, TypeOK
  <1>4. docTrip' \in [Doc -> trips \cup {NoTrip, Absent}] /\ Stored' = Stored
    BY <1>1, <1>2 DEF Inv, TypeOK, Stored
  <1>5. \A d \in Doc \ Stored : docSeg'[d] = docSeg[d]
    BY <1>1, <1>2
  <1>6. TypeOK'
    BY <1>1, <1>3, <1>4, <1>5 DEF Inv, TypeOK, Filed, Recorded
  <1> QED BY <1>1, <1>6 DEF Inv, OneLinkedExpense

LEMMA DocumentKeeps ==
  ASSUME Inv, NEW d \in Doc,
         \/ \E t \in Trip : UploadToTrip(d, t)
         \/ \E s \in Seg : UploadToSegment(d, s) \/ LinkToSegment(d, s)
         \/ UnlinkFromSegment(d)
         \/ DeleteDocument(d)
  PROVE  Inv'
  <1>1. UNCHANGED <<trips, segTrip, priced, expTrip, expSeg, pending, linking>>
    BY DEF UploadToTrip, UploadToSegment, Upload, LinkToSegment, UnlinkFromSegment,
           DeleteDocument, segments, expenses, inbox
  <1>2. /\ docTrip' \in [Doc -> trips \cup {NoTrip, Absent}]
        /\ docSeg' \in [Doc -> Filed \cup {NoSeg}]
        /\ docEmail' \in [Doc -> Email \cup {NoEmail}]
        /\ \A c \in Doc \ Stored' : docSeg'[c] = NoSeg /\ docEmail'[c] = NoEmail
    <2>1. CASE \E t \in Trip : UploadToTrip(d, t)
      BY <2>1 DEF UploadToTrip, Upload, Inv, TypeOK, Stored
    <2>2. CASE \E s \in Seg : UploadToSegment(d, s)
      BY <2>2 DEF UploadToSegment, Upload, Inv, TypeOK, Stored, Filed
    <2>3. CASE \E s \in Seg : LinkToSegment(d, s)
      BY <2>3 DEF LinkToSegment, OnItsTrip, Inv, TypeOK, Stored
    <2>4. CASE UnlinkFromSegment(d)
      BY <2>4 DEF UnlinkFromSegment, Inv, TypeOK, Stored
    <2>5. CASE DeleteDocument(d)
      BY <2>5 DEF DeleteDocument, KeepDocs, Inv, TypeOK, Stored
    <2> QED BY <2>1, <2>2, <2>3, <2>4, <2>5
  <1>3. TypeOK'
    BY <1>1, <1>2 DEF Inv, TypeOK, Filed, Recorded
  <1> QED BY <1>1, <1>3 DEF Inv, OneLinkedExpense

LEMMA SegmentKeeps ==
  ASSUME Inv, NEW s \in Seg,
         UpdateSegment(s) \/ \E t \in Trip : CreateSegment(s, t)
  PROVE  Inv'
  <1>1. UNCHANGED <<docTrip, docSeg, docEmail, expTrip, expSeg, pending, linking>>
    BY DEF UpdateSegment, CreateSegment, documents, expenses, inbox
  <1>2. /\ trips \subseteq trips' /\ trips' \subseteq Trip
        /\ segTrip' \in [Seg -> trips' \cup {NoTrip}]
        /\ Filed \subseteq Filed'
        /\ priced' \subseteq Filed \cap Carried
    BY DEF UpdateSegment, CreateSegment, Inv, TypeOK, Filed, ByHand
  <1>3. TypeOK'
    BY <1>1, <1>2 DEF Inv, TypeOK, Stored, Recorded
  <1> QED BY <1>1, <1>3 DEF Inv, OneLinkedExpense

LEMMA ExpenseKeeps ==
  ASSUME Inv, NEW x \in Expense,
         UpdateExpense(x) \/ DeleteExpense(x) \/ \E t \in trips : CreateExpense(x, t)
  PROVE  Inv'
  <1>1. UNCHANGED <<trips, segTrip, priced, docTrip, docSeg, docEmail, pending, linking>>
    BY DEF UpdateExpense, DeleteExpense, CreateExpense, segments, documents, inbox
  <1>2. /\ expTrip' \in [Expense -> trips \cup {NoTrip}]
        /\ expSeg' \in [Expense -> Filed \cup {NoSeg}]
        /\ \A y \in Expense \ Recorded' : expSeg'[y] = NoSeg
    BY DEF UpdateExpense, DeleteExpense, CreateExpense, KeepExpenses, Inv, TypeOK, Recorded
  <1>3. \A y \in Expense : expSeg'[y] \in {expSeg[y], NoSeg}
    BY DEF UpdateExpense, DeleteExpense, CreateExpense, KeepExpenses, Inv, TypeOK
  <1>4. TypeOK'
    BY <1>1, <1>2 DEF Inv, TypeOK, Filed, Stored
  <1> QED BY <1>3, <1>4 DEF Inv, OneLinkedExpense

LEMMA DeleteTripKeeps ==
  ASSUME Inv, NEW t \in Trip, DeleteTrip(t)
  PROVE  Inv'
  <1> DEFINE lost == {s \in Seg : segTrip[s] = t}
  <1>1. /\ t \in trips /\ trips' = trips \ {t}
        /\ KeepSegments(Seg \ lost)
        /\ KeepDocs({d \in Doc : docTrip[d] # t}, lost)
        /\ KeepExpenses({x \in Expense : expTrip[x] # t}, lost)
        /\ UNCHANGED <<pending, linking>>
    BY DEF DeleteTrip, inbox
  <1>2. /\ segTrip' \in [Seg -> trips' \cup {NoTrip}]
        /\ Filed' = Filed \ lost
        /\ priced' \subseteq Filed' \cap Carried
    BY <1>1 DEF KeepSegments, Inv, TypeOK, Filed
  <1>3. /\ docTrip' \in [Doc -> trips' \cup {NoTrip, Absent}]
        /\ docSeg' \in [Doc -> Filed' \cup {NoSeg}]
        /\ docEmail' \in [Doc -> Email \cup {NoEmail}]
        /\ \A d \in Doc \ Stored' : docSeg'[d] = NoSeg /\ docEmail'[d] = NoEmail
    <2>1. /\ docTrip' \in [Doc -> trips' \cup {NoTrip, Absent}]
          /\ docEmail' \in [Doc -> Email \cup {NoEmail}]
      BY <1>1 DEF KeepDocs, Inv, TypeOK
    <2>2. docSeg' \in [Doc -> Filed' \cup {NoSeg}]
      BY <1>1, <1>2 DEF KeepDocs, Inv, TypeOK
    <2>3. \A d \in Doc \ Stored' : docSeg'[d] = NoSeg /\ docEmail'[d] = NoEmail
      BY <1>1 DEF KeepDocs, Inv, TypeOK, Stored
    <2> QED BY <2>1, <2>2, <2>3
  <1>4. /\ expTrip' \in [Expense -> trips' \cup {NoTrip}]
        /\ expSeg' \in [Expense -> Filed' \cup {NoSeg}]
        /\ \A x \in Expense \ Recorded' : expSeg'[x] = NoSeg
    <2>1. expTrip' \in [Expense -> trips' \cup {NoTrip}]
      BY <1>1 DEF KeepExpenses, Inv, TypeOK
    <2>2. expSeg' \in [Expense -> Filed' \cup {NoSeg}]
      BY <1>1, <1>2 DEF KeepExpenses, Inv, TypeOK
    <2>3. \A x \in Expense \ Recorded' : expSeg'[x] = NoSeg
      BY <1>1 DEF KeepExpenses, Inv, TypeOK, Recorded
    <2> QED BY <2>1, <2>2, <2>3
  <1>5. TypeOK'
    BY <1>1, <1>2, <1>3, <1>4 DEF Inv, TypeOK
  <1>6. OneLinkedExpense'
    BY <1>1 DEF KeepExpenses, Inv, OneLinkedExpense
  <1> QED BY <1>5, <1>6 DEF Inv

-----------------------------------------------------------------------------
(* Confirm.                                                                   *)

\* The trips cleaned up hold no segment, so that none is lost with them, and
\* the target is not among them.
LEMMA ConfirmMoves ==
  ASSUME Inv, NEW e \in Email, NEW target \in trips \cup {NoTrip}, NEW known,
         Confirm(e, target, known)
  PROVE  /\ segTrip' = Moved(e, target) /\ Filed' = Filed
         /\ {s \in Filed : Moved(e, target)[s] \in Emptied(e, target)} = {}
         /\ segTrip' \in [Seg -> trips' \cup {NoTrip}]
         /\ Emptied(e, target) \subseteq trips
         /\ trips' = trips \ Emptied(e, target) /\ priced' = priced
         /\ KeepDocs({d \in Doc : docTrip[d] \notin Emptied(e, target)}, {})
  <1> DEFINE moved == Moved(e, target)
             gone  == Emptied(e, target)
             lost  == {s \in Filed : moved[s] \in gone}
  <1>1. lost = {}
    BY DEF Emptied, Filed
  <1>2. /\ trips' = trips \ gone
        /\ segTrip' = [s \in Seg |-> IF s \in lost THEN NoTrip ELSE moved[s]]
        /\ priced' = priced \ lost
        /\ KeepDocs({d \in Doc : docTrip[d] \notin gone}, lost)
    BY DEF Confirm
  <1>3. moved \in [Seg -> trips \cup {NoTrip}]
        /\ \A s \in Seg : moved[s] = NoTrip <=> segTrip[s] = NoTrip
    BY DEF Moved, Inv, TypeOK, FiledFrom, Filed
  <1>4. segTrip' = moved
    BY <1>1, <1>2, <1>3
  <1>5. gone \subseteq trips /\ target \notin gone
    BY DEF Emptied, Inv, TypeOK, FiledFrom, Filed
  <1>6. \A s \in Seg : moved[s] \notin gone
    BY DEF Emptied
  <1>7. segTrip' \in [Seg -> trips' \cup {NoTrip}] /\ Filed' = Filed
    BY <1>2, <1>3, <1>4, <1>6 DEF Filed
  <1>8. priced' = priced /\ KeepDocs({d \in Doc : docTrip[d] \notin gone}, {})
    BY <1>1, <1>2
  <1> HIDE DEF moved, gone, lost
  <1> QED BY <1>1, <1>2, <1>4, <1>5, <1>7, <1>8 DEF moved, gone, lost

\* The expenses after a confirm: those kept, and one for each segment paid.
LEMMA ConfirmPays ==
  ASSUME Inv, NEW e \in Email, NEW target \in trips \cup {NoTrip}, NEW known,
         Confirm(e, target, known)
  PROVE  LET kept == {x \in Recorded : expTrip[x] \notin Emptied(e, target)}
         IN  \E ids \in SUBSET (Expense \ kept) : \E pays \in [ids -> Due(e, kept)] :
               /\ \A x, y \in ids : pays[x] = pays[y] => x = y
               /\ expTrip' = [x \in Expense |->
                     IF x \in ids THEN segTrip'[pays[x]]
                     ELSE IF x \in kept THEN expTrip[x] ELSE NoTrip]
               /\ expSeg' = [x \in Expense |->
                     IF x \in ids THEN pays[x]
                     ELSE IF x \in kept THEN expSeg[x] ELSE NoSeg]
  <1> DEFINE moved == Moved(e, target)
             gone  == Emptied(e, target)
             lost  == {s \in Filed : moved[s] \in gone}
             kept  == {x \in Recorded : expTrip[x] \notin gone}
             paid  == Due(e, kept) \cap known
  <1>1. lost = {} /\ segTrip' = moved
    BY ConfirmMoves
  <1>2. PICK ids \in SUBSET (Expense \ kept) : \E pays \in Bijection(ids, paid) :
          /\ expTrip' = [x \in Expense |->
                IF x \in ids THEN moved[pays[x]]
                ELSE IF x \in kept THEN expTrip[x] ELSE NoTrip]
          /\ expSeg' = [x \in Expense |->
                IF x \in ids THEN pays[x]
                ELSE IF x \in kept /\ expSeg[x] \notin lost THEN expSeg[x] ELSE NoSeg]
    BY DEF Confirm
  <1>3. PICK f \in Bijection(ids, paid) :
          /\ expTrip' = [x \in Expense |->
                IF x \in ids THEN moved[f[x]]
                ELSE IF x \in kept THEN expTrip[x] ELSE NoTrip]
          /\ expSeg' = [x \in Expense |->
                IF x \in ids THEN f[x]
                ELSE IF x \in kept /\ expSeg[x] \notin lost THEN expSeg[x] ELSE NoSeg]
    BY <1>2
  <1>4. /\ f \in [ids -> paid]
        /\ \A x, y \in ids : f[x] = f[y] => x = y
    BY DEF Bijection, Injection, IsInjective
  <1>5. f \in [ids -> Due(e, kept)]
    BY <1>4
  <1>6. expTrip' = [x \in Expense |->
          IF x \in ids THEN segTrip'[f[x]]
          ELSE IF x \in kept THEN expTrip[x] ELSE NoTrip]
    BY <1>1, <1>3
  <1>7. expSeg' = [x \in Expense |->
          IF x \in ids THEN f[x]
          ELSE IF x \in kept THEN expSeg[x] ELSE NoSeg]
    BY <1>1, <1>3
  <1> HIDE DEF moved, gone, lost, kept, paid
  <1> QED BY <1>2, <1>4, <1>5, <1>6, <1>7 DEF kept, gone

LEMMA ConfirmKeeps ==
  ASSUME Inv, NEW e \in Email, NEW target \in trips \cup {NoTrip}, NEW known,
         Confirm(e, target, known)
  PROVE  Inv'
  <1> DEFINE gone == Emptied(e, target)
             kept == {x \in Recorded : expTrip[x] \notin gone}
  <1>1. /\ Filed' = Filed /\ priced' = priced
        /\ segTrip' \in [Seg -> trips' \cup {NoTrip}]
        /\ gone \subseteq trips /\ trips' = trips \ gone
        /\ KeepDocs({d \in Doc : docTrip[d] \notin gone}, {})
    BY ConfirmMoves
  <1>2. PICK ids \in SUBSET (Expense \ kept) : \E pays \in [ids -> Due(e, kept)] :
          /\ \A x, y \in ids : pays[x] = pays[y] => x = y
          /\ expTrip' = [x \in Expense |->
                IF x \in ids THEN segTrip'[pays[x]]
                ELSE IF x \in kept THEN expTrip[x] ELSE NoTrip]
          /\ expSeg' = [x \in Expense |->
                IF x \in ids THEN pays[x]
                ELSE IF x \in kept THEN expSeg[x] ELSE NoSeg]
    BY ConfirmPays
  <1>3. PICK pays \in [ids -> Due(e, kept)] :
          /\ \A x, y \in ids : pays[x] = pays[y] => x = y
          /\ expTrip' = [x \in Expense |->
                IF x \in ids THEN segTrip'[pays[x]]
                ELSE IF x \in kept THEN expTrip[x] ELSE NoTrip]
          /\ expSeg' = [x \in Expense |->
                IF x \in ids THEN pays[x]
                ELSE IF x \in kept THEN expSeg[x] ELSE NoSeg]
    BY <1>2
  <1>4. /\ pending' \subseteq Email /\ linking' \in Email \cup {NoEmail}
    BY DEF Confirm, Inv, TypeOK
  <1>5. /\ docTrip' \in [Doc -> trips' \cup {NoTrip, Absent}]
        /\ docSeg' \in [Doc -> Filed' \cup {NoSeg}]
        /\ docEmail' \in [Doc -> Email \cup {NoEmail}]
        /\ \A d \in Doc \ Stored' : docSeg'[d] = NoSeg /\ docEmail'[d] = NoEmail
    <2>1. /\ docTrip' \in [Doc -> trips' \cup {NoTrip, Absent}]
          /\ docSeg' \in [Doc -> Filed' \cup {NoSeg}]
          /\ docEmail' \in [Doc -> Email \cup {NoEmail}]
      BY <1>1 DEF KeepDocs, Inv, TypeOK
    <2>2. \A d \in Doc \ Stored' : docSeg'[d] = NoSeg /\ docEmail'[d] = NoEmail
      BY <1>1 DEF KeepDocs, Inv, TypeOK, Stored
    <2> QED BY <2>1, <2>2
  <1>6. \A s \in Due(e, kept) : s \in Filed /\ segTrip'[s] \in trips'
                                /\ \A x \in kept : expSeg[x] # s
    <2>1. \A s \in Due(e, kept) : s \in Filed /\ \A x \in kept : expSeg[x] # s
      BY DEF Due, FiledFrom
    <2>2. \A s \in Filed : segTrip'[s] \in trips'
      BY <1>1 DEF Filed
    <2> QED BY <2>1, <2>2
  <1>7. \A x \in kept : expTrip[x] \in trips'
    BY <1>1 DEF Inv, TypeOK, Recorded
  <1>8. \A x \in ids : pays[x] \in Due(e, kept)
    BY <1>3
  <1>9. expTrip' \in [Expense -> trips' \cup {NoTrip}]
    BY <1>3, <1>6, <1>7, <1>8
  <1>10. expSeg' \in [Expense -> Filed' \cup {NoSeg}]
    BY <1>1, <1>3, <1>6, <1>8 DEF Inv, TypeOK
  <1>11. \A x \in Expense \ Recorded' : expSeg'[x] = NoSeg
    <2> SUFFICES ASSUME NEW x \in Expense, expTrip'[x] = NoTrip
                 PROVE  expSeg'[x] = NoSeg
      BY DEF Recorded
    <2>1. x \notin ids
      BY <1>3, <1>6, <1>8, <1>1 DEF Inv, TypeOK
    <2>2. x \notin kept
      BY <1>1, <1>3, <1>7, <2>1 DEF Inv, TypeOK
    <2> QED BY <1>3, <2>1, <2>2
  <1>12. TypeOK'
    BY <1>1, <1>4, <1>5, <1>9, <1>10, <1>11 DEF Inv, TypeOK
  <1>13. OneLinkedExpense'
    <2> SUFFICES ASSUME NEW x \in Expense, NEW y \in Expense,
                        expSeg'[x] # NoSeg, expSeg'[x] = expSeg'[y]
                 PROVE  x = y
      BY DEF OneLinkedExpense
    <2>1. x \in ids \cup kept /\ y \in ids \cup kept
      BY <1>3
    <2>2. CASE x \in ids /\ y \in ids
      BY <1>3, <2>2
    <2>3. CASE x \in ids /\ y \in kept \ ids
      BY <1>3, <1>6, <1>8, <2>3
    <2>4. CASE y \in ids /\ x \in kept \ ids
      BY <1>3, <1>6, <1>8, <2>4
    <2>5. CASE x \in kept \ ids /\ y \in kept \ ids
      BY <1>3, <2>5 DEF Inv, OneLinkedExpense
    <2> QED BY <2>1, <2>2, <2>3, <2>4, <2>5
  <1> QED BY <1>12, <1>13 DEF Inv

-----------------------------------------------------------------------------
(* The theorems.                                                              *)

LEMMA NextInv == Inv /\ [Next]_vars => Inv'
  <1> SUFFICES ASSUME Inv, [Next]_vars PROVE Inv'
    OBVIOUS
  <1>1. CASE Worker
    <2>1. CASE FailBeforeLinks
      BY <2>1 DEF FailBeforeLinks, segments, documents, expenses, Inv, TypeOK,
              OneLinkedExpense, Filed, Stored, Recorded
    <2> QED BY <1>1, <2>1, ParseKeeps, AutolinkKeeps DEF Worker
  <1>2. CASE Inbox
    <2> PICK e \in Email :
          \/ \E target \in trips \cup {NoTrip}, known \in SUBSET Carried : Confirm(e, target, known)
          \/ Discard(e)
          \/ Reparse(e)
      BY <1>2 DEF Inbox
    <2>1. CASE \E target \in trips \cup {NoTrip}, known \in SUBSET Carried : Confirm(e, target, known)
      BY <2>1, ConfirmKeeps
    <2>2. CASE Discard(e)
      <3>1. FiledFrom(e) \in SUBSET Seg
        BY DEF FiledFrom, Filed
      <3>2. DropSegments(FiledFrom(e)) /\ pending' \subseteq Email /\ linking' \in Email \cup {NoEmail}
        BY <2>2 DEF Discard, Inv, TypeOK
      <3> QED BY <3>1, <3>2, DropKeeps
    <2>3. CASE Reparse(e)
      BY <2>3 DEF Reparse, segments, documents, expenses, Inv, TypeOK,
              OneLinkedExpense, Filed, Stored, Recorded
    <2> QED BY <2>1, <2>2, <2>3
  <1>3. CASE Pages
    <2>1. ASSUME NEW s \in Seg, UpdateSegment(s) \/ \E t \in Trip : CreateSegment(s, t)
          PROVE  Inv'
      BY <2>1, SegmentKeeps
    <2>2. ASSUME NEW s \in Seg, DeleteSegment(s)
          PROVE  Inv'
      <3>1. DropSegments({s}) /\ pending' \subseteq Email /\ linking' \in Email \cup {NoEmail}
        BY <2>2 DEF DeleteSegment, inbox, Inv, TypeOK
      <3> QED BY <3>1, DropKeeps
    <2>3. trips \subseteq Trip
      BY DEF Inv, TypeOK
    <2>4. ASSUME NEW t \in trips, DeleteTrip(t)
          PROVE  Inv'
      BY <2>3, <2>4, DeleteTripKeeps
    <2>5. ASSUME NEW d \in Doc,
                 \/ \E t \in trips : UploadToTrip(d, t)
                 \/ \E s \in Seg : UploadToSegment(d, s) \/ LinkToSegment(d, s)
                 \/ UnlinkFromSegment(d)
                 \/ DeleteDocument(d)
          PROVE  Inv'
      BY <2>3, <2>5, DocumentKeeps
    <2> QED BY <1>3, <2>1, <2>2, <2>4, <2>5, ExpenseKeeps DEF Pages
  <1>4. CASE UNCHANGED vars
    BY <1>4 DEF vars, segments, documents, expenses, inbox, Inv, TypeOK,
            OneLinkedExpense, Filed, Stored, Recorded
  <1> QED BY <1>1, <1>2, <1>3, <1>4 DEF Next

\* Every row a column points at exists, after any sequence of requests and jobs.
THEOREM ForeignKeys == Spec => []TypeOK
  <1>1. Inv => TypeOK
    BY DEF Inv
  <1> QED BY InitInv, NextInv, <1>1, PTL DEF Spec

\* No segment ever has two expenses: a price is booked once.
THEOREM BooksOnce == Spec => []OneLinkedExpense
  <1>1. Inv => OneLinkedExpense
    BY DEF Inv
  <1> QED BY InitInv, NextInv, <1>1, PTL DEF Spec

\* Confirm's clean-up deletes no segment: they go on request alone.
THEOREM SegmentsStay == Spec => SegmentsGoOnRequest
  <1> DEFINE Asked(s) ==
        \/ DeleteSegment(s)
        \/ \E e \in Email : s \in Drafts[e] /\ Discard(e)
        \/ \E t \in trips : segTrip[s] = t /\ DeleteTrip(t)
  <1>1. Inv /\ [Next]_vars => [\A s \in Filed \ Filed' : Asked(s)]_vars
    <2> SUFFICES ASSUME Inv, Next, NEW s \in Filed \ Filed' PROVE Asked(s)
      OBVIOUS
    <2>1. CASE Worker
      <3>1. CASE \E e \in Email : FileDrafts(e)
        <4> PICK e \in Email : FileDrafts(e)
          BY <3>1
        <4> DEFINE fresh == Drafts[e] \ Filed
        <4>1. PICK choice \in [fresh -> Trip] :
                segTrip' = [r \in Seg |-> IF r \in fresh THEN choice[r] ELSE segTrip[r]]
          BY DEF FileDrafts
        <4> QED BY <4>1 DEF Filed
      <3>2. CASE ~ \E e \in Email : FileDrafts(e)
        BY <2>1, <3>2 DEF Worker, Autolink, FailBeforeLinks, FileNothing, segments, Filed
      <3> QED BY <3>1, <3>2
    <2>2. CASE Inbox
      <3> PICK e \in Email :
            \/ \E target \in trips \cup {NoTrip}, known \in SUBSET Carried : Confirm(e, target, known)
            \/ Discard(e)
            \/ Reparse(e)
        BY <2>2 DEF Inbox
      <3>1. ASSUME NEW target \in trips \cup {NoTrip}, NEW known \in SUBSET Carried,
                   Confirm(e, target, known)
            PROVE  FALSE
        BY <3>1, ConfirmMoves
      <3>2. CASE Discard(e)
        BY <3>2 DEF Discard, DropSegments, KeepSegments, FiledFrom, Filed
      <3>3. CASE Reparse(e)
        BY <3>3 DEF Reparse, segments, Filed
      <3> QED BY <3>1, <3>2, <3>3
    <2>3. CASE Pages
      <3>1. ASSUME NEW r \in Seg, DeleteSegment(r)
            PROVE  Asked(s)
        <4>1. s = r
          BY <3>1 DEF DeleteSegment, DropSegments, KeepSegments, Filed
        <4> QED BY <3>1, <4>1
      <3>2. ASSUME NEW t \in trips, DeleteTrip(t)
            PROVE  Asked(s)
        <4>1. segTrip[s] = t
          BY <3>2 DEF DeleteTrip, KeepSegments, Filed
        <4> QED BY <3>2, <4>1
      <3>3. ASSUME NEW r \in Seg, UpdateSegment(r) \/ \E t \in Trip : CreateSegment(r, t)
            PROVE  FALSE
        BY <3>3 DEF UpdateSegment, CreateSegment, Filed, Inv, TypeOK
      <3>4. ASSUME NEW d \in Doc,
                   \/ \E t \in trips : UploadToTrip(d, t)
                   \/ \E r \in Seg : UploadToSegment(d, r) \/ LinkToSegment(d, r)
                   \/ UnlinkFromSegment(d)
                   \/ DeleteDocument(d)
            PROVE  FALSE
        BY <3>4 DEF UploadToTrip, UploadToSegment, Upload, LinkToSegment,
                    UnlinkFromSegment, DeleteDocument, segments, Filed
      <3>5. ASSUME NEW x \in Expense,
                   UpdateExpense(x) \/ DeleteExpense(x) \/ \E t \in trips : CreateExpense(x, t)
            PROVE  FALSE
        BY <3>5 DEF UpdateExpense, DeleteExpense, CreateExpense, segments, Filed
      <3> QED BY <2>3, <3>1, <3>2, <3>3, <3>4, <3>5 DEF Pages
    <2> QED BY <2>1, <2>2, <2>3 DEF Next
  <1> QED BY <1>1, InitInv, NextInv, PTL DEF Spec, SegmentsGoOnRequest

\* Jobs and pages alike leave a document's link or take it away: only the user
\* points it at another segment.
THEOREM LinksStay == Spec => LinksKept
  <1> DEFINE Kept == \A d \in Doc :
        docSeg[d] # NoSeg /\ docSeg'[d] \notin {docSeg[d], NoSeg} => LinkToSegment(d, docSeg'[d])
  <1>1. Inv /\ [Next]_vars => [Kept]_vars
    <2> SUFFICES ASSUME Inv, Next, NEW d \in Doc,
                        docSeg[d] # NoSeg, docSeg'[d] \notin {docSeg[d], NoSeg}
                 PROVE  LinkToSegment(d, docSeg'[d])
      OBVIOUS
    <2>1. CASE Worker
      BY <2>1 DEF Worker, Autolink, Unlinked, FailBeforeLinks, FileDrafts, FileNothing,
              Persist, documents
    <2>2. CASE Inbox
      <3>1. ASSUME NEW left, NEW lost, KeepDocs(left, lost)
            PROVE  FALSE
        BY <3>1 DEF KeepDocs
      <3>2. ASSUME NEW e \in Email
            PROVE  Discard(e) \/ Reparse(e) => FALSE
        BY <3>1 DEF Discard, DropSegments, Reparse, documents
      <3>3. ASSUME NEW e \in Email, NEW target, NEW known, Confirm(e, target, known)
            PROVE  FALSE
        BY <3>1, <3>3 DEF Confirm
      <3> QED BY <2>2, <3>2, <3>3 DEF Inbox
    <2>3. CASE Pages
      <3>1. ASSUME NEW left, NEW lost, KeepDocs(left, lost)
            PROVE  FALSE
        BY <3>1 DEF KeepDocs
      <3>2. ASSUME NEW s \in Seg,
                   UpdateSegment(s) \/ DeleteSegment(s) \/ \E t \in Trip : CreateSegment(s, t)
            PROVE  FALSE
        BY <3>1, <3>2 DEF UpdateSegment, DeleteSegment, DropSegments, CreateSegment, documents
      <3>3. ASSUME NEW c \in Doc, NEW t, NEW s, Upload(c, t, s)
            PROVE  FALSE
        BY <3>3 DEF Upload, Stored, Inv, TypeOK
      <3>4. ASSUME NEW c \in Doc, UnlinkFromSegment(c) \/ DeleteDocument(c)
            PROVE  FALSE
        BY <3>1, <3>4 DEF UnlinkFromSegment, DeleteDocument, Inv, TypeOK
      <3>5. ASSUME NEW c \in Doc, NEW s \in Seg, LinkToSegment(c, s)
            PROVE  c = d /\ docSeg'[d] = s
        BY <3>5 DEF LinkToSegment, Inv, TypeOK
      <3>6. ASSUME NEW x \in Expense,
                   UpdateExpense(x) \/ DeleteExpense(x) \/ \E t \in trips : CreateExpense(x, t)
            PROVE  FALSE
        BY <3>6 DEF UpdateExpense, DeleteExpense, CreateExpense, documents
      <3>7. ASSUME NEW t \in trips, DeleteTrip(t)
            PROVE  FALSE
        BY <3>1, <3>7 DEF DeleteTrip
      <3> QED BY <2>3, <3>2, <3>3, <3>4, <3>5, <3>6, <3>7 DEF Pages, UploadToTrip, UploadToSegment
    <2> QED BY <2>1, <2>2, <2>3 DEF Next
  <1> QED BY <1>1, InitInv, NextInv, PTL DEF Spec, LinksKept

\* Rows that lose their links or go with their segment stay together.
LEMMA DroppingKeepsTogether ==
  ASSUME Inv, Together, NEW lost \in SUBSET Seg, NEW docsLeft, NEW expLeft,
         KeepSegments(Seg \ lost), KeepDocs(docsLeft, lost), KeepExpenses(expLeft, lost)
  PROVE  Together'
  <1>1. \A d \in Doc : docSeg'[d] # NoSeg =>
          d \in docsLeft /\ docSeg'[d] = docSeg[d] /\ docSeg[d] \in Seg \ lost
    BY DEF KeepDocs, Inv, TypeOK, Filed
  <1>2. \A x \in Expense : expSeg'[x] # NoSeg =>
          x \in expLeft /\ expSeg'[x] = expSeg[x] /\ expSeg[x] \in Seg \ lost
    BY DEF KeepExpenses, Inv, TypeOK, Filed
  <1>3. \A s \in Seg \ lost : segTrip'[s] = segTrip[s]
    BY DEF KeepSegments
  <1>4. /\ \A d \in docsLeft \cap Doc : docTrip'[d] = docTrip[d]
        /\ \A x \in expLeft \cap Expense : expTrip'[x] = expTrip[x]
    BY DEF KeepDocs, KeepExpenses
  <1> QED BY <1>1, <1>2, <1>3, <1>4 DEF Together

\* What a confirm that moves nothing books is in its segment's trip.
LEMMA ConfirmInPlace ==
  ASSUME Inv, Together, NEW e \in Email, NEW known, Confirm(e, NoTrip, known)
  PROVE  Together'
  <1>1. Emptied(e, NoTrip) = {} /\ segTrip' = segTrip
        /\ KeepDocs({d \in Doc : docTrip[d] \notin Emptied(e, NoTrip)}, {})
    <2>1. Emptied(e, NoTrip) = {}
      BY DEF Emptied
    <2>2. Moved(e, NoTrip) = segTrip
      BY DEF Moved, Inv, TypeOK
    <2> QED BY <2>1, <2>2, ConfirmMoves
  <1>2. docTrip' = docTrip /\ docSeg' = docSeg
    BY <1>1 DEF KeepDocs, Inv, TypeOK
  <1> DEFINE kept == {x \in Recorded : expTrip[x] \notin Emptied(e, NoTrip)}
  <1> NoTrip \in trips \cup {NoTrip}
    OBVIOUS
  <1>3. PICK ids \in SUBSET (Expense \ kept) : \E pays \in [ids -> Due(e, kept)] :
          /\ \A x, y \in ids : pays[x] = pays[y] => x = y
          /\ expTrip' = [x \in Expense |->
                IF x \in ids THEN segTrip'[pays[x]]
                ELSE IF x \in kept THEN expTrip[x] ELSE NoTrip]
          /\ expSeg' = [x \in Expense |->
                IF x \in ids THEN pays[x]
                ELSE IF x \in kept THEN expSeg[x] ELSE NoSeg]
    BY ConfirmPays
  <1>4. \A x \in Expense : expSeg'[x] # NoSeg => expTrip'[x] = segTrip'[expSeg'[x]]
    BY <1>1, <1>3 DEF Together
  <1> QED BY <1>1, <1>2, <1>4 DEF Together

\* Only a confirm into another trip leaves a document or an expense behind.
THEOREM OthersKeepTogether == Spec => OnlyRetargetingParts
  <1> DEFINE Retargets == \E e \in Email, t \in trips, known \in SUBSET Carried : Confirm(e, t, known)
  <1>1. Inv /\ [Next]_vars => [Together => Together' \/ Retargets]_vars
    <2> SUFFICES ASSUME Inv, Next, Together, ~Retargets PROVE Together'
      OBVIOUS
    <2>1. CASE Worker
      <3>1. CASE Autolink
        <4> DEFINE found == {d \in Unlinked(linking) : Names[d] \in FiledFrom(linking)}
        <4>1. /\ docSeg' = [d \in Doc |-> IF d \in found THEN Names[d] ELSE docSeg[d]]
              /\ docTrip' = [d \in Doc |-> IF d \in found THEN segTrip[Names[d]] ELSE docTrip[d]]
              /\ UNCHANGED <<segTrip, expTrip, expSeg>>
          BY <3>1 DEF Autolink, segments, expenses
        <4> QED BY <4>1 DEF Together
      <3>2. ASSUME NEW e \in Email, FileDrafts(e)
            PROVE  Together'
        <4> DEFINE fresh == Drafts[e] \ Filed
        <4>1. PICK choice \in [fresh -> Trip] :
                segTrip' = [r \in Seg |-> IF r \in fresh THEN choice[r] ELSE segTrip[r]]
          BY <3>2 DEF FileDrafts
        <4>2. \A s \in Filed : segTrip'[s] = segTrip[s]
          BY <4>1 DEF Filed
        <4>3. /\ UNCHANGED <<docSeg, expSeg, expTrip>>
              /\ \A d \in Doc : d \in Stored => docTrip'[d] = docTrip[d]
          BY <3>2 DEF FileDrafts, Persist, expenses
        <4>4. \A d \in Doc : docSeg[d] # NoSeg => d \in Stored /\ docSeg[d] \in Filed
          BY DEF Inv, TypeOK
        <4>5. \A x \in Expense : expSeg[x] # NoSeg => expSeg[x] \in Filed
          BY DEF Inv, TypeOK
        <4> QED BY <4>2, <4>3, <4>4, <4>5 DEF Together
      <3>3. ASSUME NEW e \in Email, FileNothing(e)
            PROVE  Together'
        <4>1. /\ UNCHANGED <<segTrip, docSeg, expSeg, expTrip>>
              /\ \A d \in Doc : d \in Stored => docTrip'[d] = docTrip[d]
          BY <3>3 DEF FileNothing, Persist, segments, expenses
        <4>2. \A d \in Doc : docSeg[d] # NoSeg => d \in Stored
          BY DEF Inv, TypeOK
        <4> QED BY <4>1, <4>2 DEF Together
      <3>4. CASE FailBeforeLinks
        BY <3>4 DEF FailBeforeLinks, segments, documents, expenses, Together
      <3> QED BY <2>1, <3>1, <3>2, <3>3, <3>4 DEF Worker
    <2>2. CASE Inbox
      <3>1. ASSUME NEW e \in Email, Discard(e)
            PROVE  Together'
        <4>1. FiledFrom(e) \in SUBSET Seg
          BY DEF FiledFrom, Filed
        <4> QED BY <3>1, <4>1, DroppingKeepsTogether DEF Discard, DropSegments
      <3>2. ASSUME NEW e \in Email, Reparse(e)
            PROVE  Together'
        BY <3>2 DEF Reparse, segments, documents, expenses, Together
      <3> QED BY <2>2, <3>1, <3>2, ConfirmInPlace DEF Inbox
    <2>3. CASE Pages
      <3>1. ASSUME NEW s \in Seg, DeleteSegment(s)
            PROVE  Together'
        <4>1. {s} \in SUBSET Seg /\ DropSegments({s})
          BY <3>1 DEF DeleteSegment
        <4> QED BY <4>1, DroppingKeepsTogether DEF DropSegments
      <3>2. ASSUME NEW t \in trips, DeleteTrip(t)
            PROVE  Together'
        <4> DEFINE lost == {s \in Seg : segTrip[s] = t}
        <4>1. /\ KeepSegments(Seg \ lost)
              /\ KeepDocs({d \in Doc : docTrip[d] # t}, lost)
              /\ KeepExpenses({x \in Expense : expTrip[x] # t}, lost)
          BY <3>2 DEF DeleteTrip
        <4>2. lost \in SUBSET Seg
          OBVIOUS
        <4> HIDE DEF lost
        <4> QED BY <4>1, <4>2, DroppingKeepsTogether
      <3>3. ASSUME NEW s \in Seg, UpdateSegment(s) \/ \E t \in Trip : CreateSegment(s, t)
            PROVE  Together'
        <4>1. /\ UNCHANGED <<docTrip, docSeg, expTrip, expSeg>>
              /\ \A r \in Filed : segTrip'[r] = segTrip[r]
          BY <3>3 DEF UpdateSegment, CreateSegment, documents, expenses, Inv, TypeOK, Filed
        <4>2. /\ \A d \in Doc : docSeg[d] # NoSeg => docSeg[d] \in Filed
              /\ \A x \in Expense : expSeg[x] # NoSeg => expSeg[x] \in Filed
          BY DEF Inv, TypeOK
        <4> QED BY <4>1, <4>2 DEF Together
      <3>4. ASSUME NEW d \in Doc,
                   \/ \E t \in trips : UploadToTrip(d, t)
                   \/ \E s \in Seg : UploadToSegment(d, s) \/ LinkToSegment(d, s)
                   \/ UnlinkFromSegment(d)
                   \/ DeleteDocument(d)
            PROVE  Together'
        <4>1. UNCHANGED <<segTrip, expTrip, expSeg>>
          BY <3>4 DEF UploadToTrip, UploadToSegment, Upload, LinkToSegment,
                      UnlinkFromSegment, DeleteDocument, segments, expenses
        <4>2. \A c \in Doc \ {d} : docTrip'[c] = docTrip[c] /\ docSeg'[c] = docSeg[c]
          BY <3>4 DEF UploadToTrip, UploadToSegment, Upload, LinkToSegment,
                      UnlinkFromSegment, DeleteDocument, KeepDocs, Inv, TypeOK
        <4>3. docSeg'[d] # NoSeg => docTrip'[d] = segTrip[docSeg'[d]]
          <5>1. CASE \E s \in Seg : LinkToSegment(d, s)
            BY <5>1 DEF LinkToSegment, OnItsTrip, Inv, TypeOK
          <5>2. CASE ~ \E s \in Seg : LinkToSegment(d, s)
            BY <3>4, <5>2 DEF UploadToTrip, UploadToSegment, Upload,
                      UnlinkFromSegment, DeleteDocument, KeepDocs, Inv, TypeOK
          <5> QED BY <5>1, <5>2
        <4> QED BY <4>1, <4>2, <4>3 DEF Together
      <3>5. ASSUME NEW x \in Expense,
                   UpdateExpense(x) \/ DeleteExpense(x) \/ \E t \in trips : CreateExpense(x, t)
            PROVE  Together'
        <4>1. UNCHANGED <<segTrip, docTrip, docSeg>>
          BY <3>5 DEF UpdateExpense, DeleteExpense, CreateExpense, segments, documents
        <4>2. /\ \A y \in Expense \ {x} : expTrip'[y] = expTrip[y] /\ expSeg'[y] = expSeg[y]
              /\ expSeg'[x] = NoSeg
          BY <3>5 DEF UpdateExpense, DeleteExpense, CreateExpense, KeepExpenses, Inv, TypeOK
        <4> QED BY <4>1, <4>2 DEF Together
      <3> QED BY <2>3, <3>1, <3>2, <3>3, <3>4, <3>5 DEF Pages
    <2> QED BY <2>1, <2>2, <2>3 DEF Next
  <1> QED BY <1>1, InitInv, NextInv, PTL DEF Spec, OnlyRetargetingParts

=============================================================================
