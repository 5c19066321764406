----------------------------- MODULE TripFiling -----------------------------
(* Where bookings, documents and expenses are filed. The worker files the     *)
(* segments of an email under trips and links its attachments to them; the    *)
(* inbox confirms them, moves them to another trip and books their price;     *)
(* pages upload, link and delete. Every request is one transaction; the       *)
(* worker's job is two, the parse and the links, with requests between them.  *)
(*                                                                            *)
(* Every trip here is live and has its traveler: merging moves segments,      *)
(* documents and expenses alike (TripMerge). Trips' dates are left out. Which *)
(* of an email's segments are duplicates of another's is EmailPipeline's; the *)
(* drafts of an email here are matched with its own segments alone.           *)
EXTENDS Naturals, FiniteSets, Functions

CONSTANTS Trip, Email, Seg, Doc, Expense,  \* ids, used again once a row is gone
          Drafts,        \* [Email -> SUBSET Seg]: the segments read from it
          Attachments,   \* [Email -> SUBSET Doc]: the PDFs attached to it
          Names,         \* [Doc -> Seg or NoSeg]: the segment its name matches
          Carried,       \* the segments whose email carried their price
          NoTrip, NoSeg, NoEmail,
          Absent         \* the place of a document that has no row

ASSUME MarkersAreNoRows ==
    /\ NoTrip \notin Trip /\ Absent \notin Trip /\ NoTrip # Absent
    /\ NoSeg \notin Seg /\ NoEmail \notin Email
ASSUME EmailsAreGiven ==
    /\ Drafts \in [Email -> SUBSET Seg]
    /\ \A e, f \in Email : e # f => Drafts[e] \cap Drafts[f] = {}
    /\ Attachments \in [Email -> SUBSET Doc]
    /\ Names \in [Doc -> Seg \cup {NoSeg}]
    /\ Carried \subseteq Seg

VARIABLES
    trips,      \* the rows of trips
    segTrip,    \* segments.trip_id, NoTrip when there is no row
    priced,     \* the segments with total_price and price_currency in details
    docTrip,    \* documents.trip_id, NoTrip for NULL, Absent for no row
    docSeg,     \* documents.segment_id
    docEmail,   \* documents.raw_email_id
    expTrip,    \* expenses.trip_id, NoTrip when there is no row
    expSeg,     \* expenses.segment_id
    pending,    \* the emails whose parse_status is pending
    linking     \* the email whose job has committed and is yet to link

segments  == <<segTrip, priced>>
documents == <<docTrip, docSeg, docEmail>>
expenses  == <<expTrip, expSeg>>
inbox     == <<pending, linking>>
vars == <<trips, segments, documents, expenses, inbox>>

Filed    == {s \in Seg : segTrip[s] # NoTrip}
Stored   == {d \in Doc : docTrip[d] # Absent}
Recorded == {x \in Expense : expTrip[x] # NoTrip}
\* A segment created by hand belongs to no email.
ByHand   == {s \in Seg : \A e \in Email : s \notin Drafts[e]}
\* SELECT ... FROM segments WHERE raw_email_id = e.
FiledFrom(e) == Drafts[e] \cap Filed

Init ==
    /\ trips = {}
    /\ segTrip = [s \in Seg |-> NoTrip]
    /\ priced = {}
    /\ docTrip = [d \in Doc |-> Absent]
    /\ docSeg = [d \in Doc |-> NoSeg]
    /\ docEmail = [d \in Doc |-> NoEmail]
    /\ expTrip = [x \in Expense |-> NoTrip]
    /\ expSeg = [x \in Expense |-> NoSeg]
    /\ pending = Email
    /\ linking = NoEmail

-----------------------------------------------------------------------------
(* The foreign keys. ON DELETE CASCADE takes the rows of a deleted trip, ON   *)
(* DELETE SET NULL the links to a deleted segment.                            *)

\* Mutant: a link without ON DELETE SET NULL.
KeepDocsDangling(left, lost) ==
    /\ docTrip' = [d \in Doc |-> IF d \in left THEN docTrip[d] ELSE Absent]
    /\ docSeg' = [d \in Doc |-> IF d \in left THEN docSeg[d] ELSE NoSeg]
    /\ docEmail' = [d \in Doc |-> IF d \in left THEN docEmail[d] ELSE NoEmail]

\* The documents left keep their columns, without links to the segments lost.
KeepDocs(left, lost) ==
    /\ docTrip' = [d \in Doc |-> IF d \in left THEN docTrip[d] ELSE Absent]
    /\ docSeg' = [d \in Doc |-> IF d \in left /\ docSeg[d] \notin lost THEN docSeg[d] ELSE NoSeg]
    /\ docEmail' = [d \in Doc |-> IF d \in left THEN docEmail[d] ELSE NoEmail]

\* The same for the expenses.
KeepExpenses(left, lost) ==
    /\ expTrip' = [x \in Expense |-> IF x \in left THEN expTrip[x] ELSE NoTrip]
    /\ expSeg' = [x \in Expense |-> IF x \in left /\ expSeg[x] \notin lost THEN expSeg[x] ELSE NoSeg]

KeepSegments(left) ==
    /\ segTrip' = [s \in Seg |-> IF s \in left THEN segTrip[s] ELSE NoTrip]
    /\ priced' = priced \cap left

\* DELETE FROM segments.
DropSegments(lost) ==
    /\ KeepSegments(Seg \ lost)
    /\ KeepDocs(Doc, lost)
    /\ KeepExpenses(Expense, lost)
    /\ UNCHANGED trips

-----------------------------------------------------------------------------
(* The worker.                                                                *)

\* persist_pdf_attachments: a PDF already stored keeps its row and its place,
\* and belongs to the latest email that brought it.
Persist(e) ==
    /\ docTrip' = [d \in Doc |-> IF d \in Attachments[e] \ Stored THEN NoTrip ELSE docTrip[d]]
    /\ docEmail' = [d \in Doc |-> IF d \in Attachments[e] THEN e ELSE docEmail[d]]
    /\ UNCHANGED docSeg

\* The commit of a parse with fresh drafts: each goes to a trip the user has or
\* to one created for it. The job has the links still to do.
FileDrafts(e) ==
    /\ linking = NoEmail /\ e \in pending
    /\ LET fresh == Drafts[e] \ Filed
       IN  /\ fresh # {}
           /\ \E choice \in [fresh -> Trip] :
                /\ segTrip' = [s \in Seg |-> IF s \in fresh THEN choice[s] ELSE segTrip[s]]
                /\ trips' = trips \cup {choice[s] : s \in fresh}
           /\ priced' = priced \cup (fresh \cap Carried)
    /\ Persist(e)
    /\ pending' = pending \ {e}
    /\ linking' = e
    /\ UNCHANGED expenses

\* The commit of a parse that found no segments or only known ones.
FileNothing(e) ==
    /\ linking = NoEmail /\ e \in pending
    /\ Persist(e)
    /\ pending' = pending \ {e}
    /\ UNCHANGED <<trips, segments, expenses, linking>>

\* Mutant: linked documents selected too.
UnlinkedAny(e) == {d \in Stored : docEmail[d] = e}

\* The documents autolink_pending_for_email selects.
Unlinked(e) == {d \in Stored : docEmail[d] = e /\ docSeg[d] = NoSeg}

\* autolink_pending_for_email: one SELECT of documents, one of segments, a
\* commit. A document that matches follows its segment into its trip.
Autolink ==
    /\ linking \in Email
    /\ LET found == {d \in Unlinked(linking) : Names[d] \in FiledFrom(linking)}
       IN  /\ docSeg' = [d \in Doc |-> IF d \in found THEN Names[d] ELSE docSeg[d]]
           /\ docTrip' = [d \in Doc |-> IF d \in found THEN segTrip[Names[d]] ELSE docTrip[d]]
    /\ linking' = NoEmail
    /\ UNCHANGED <<trips, segments, docEmail, expenses, pending>>

\* The job fails between its two transactions. Its retry finds the email
\* parsed and skips it.
FailBeforeLinks ==
    /\ linking # NoEmail
    /\ linking' = NoEmail
    /\ UNCHANGED <<trips, segments, documents, expenses, pending>>

-----------------------------------------------------------------------------
(* The inbox.                                                                 *)

\* segments.trip_id once confirm has moved the segments of e to the target.
Moved(e, target) ==
    [s \in Seg |-> IF target # NoTrip /\ s \in FiledFrom(e) THEN target ELSE segTrip[s]]

\* Mutant: old trips deleted without counting the segments left.
EmptiedUncounted(e, target) ==
    {t \in {segTrip[s] : s \in FiledFrom(e)} \ {target} : target # NoTrip}

\* The trips confirm deletes: those the segments came from that are left
\* without a segment.
Emptied(e, target) ==
    {t \in {segTrip[s] : s \in FiledFrom(e)} \ {target} :
        target # NoTrip /\ \A s \in Seg : Moved(e, target)[s] # t}

\* Mutant: no look for an expense that is there already.
DueAgain(e, kept) == FiledFrom(e) \cap priced

\* _maybe_create_expense goes on for the segments of e that have a price and
\* none of the expenses kept.
Due(e, kept) == {s \in FiledFrom(e) \cap priced : \A x \in kept : expSeg[x] # s}

\* confirm, with target_trip or (NoTrip) without. The old trips and what they
\* hold are deleted before expenses are looked for. Segments whose currency has
\* no rate, all but known, are skipped; two linked expenses are an error.
Confirm(e, target, known) ==
    LET moved == Moved(e, target)
        gone  == Emptied(e, target)
        lost  == {s \in Filed : moved[s] \in gone}
        kept  == {x \in Recorded : expTrip[x] \notin gone}
        paid  == Due(e, kept) \cap known
    IN  /\ target \in trips \cup {NoTrip}
        /\ \A s \in FiledFrom(e) \cap priced, x, y \in kept :
              expSeg[x] = s /\ expSeg[y] = s => x = y
        /\ trips' = trips \ gone
        /\ segTrip' = [s \in Seg |-> IF s \in lost THEN NoTrip ELSE moved[s]]
        /\ priced' = priced \ lost
        /\ KeepDocs({d \in Doc : docTrip[d] \notin gone}, lost)
        /\ \E ids \in SUBSET (Expense \ kept) : \E pays \in Bijection(ids, paid) :
              /\ expTrip' = [x \in Expense |->
                    IF x \in ids THEN moved[pays[x]]
                    ELSE IF x \in kept THEN expTrip[x] ELSE NoTrip]
              /\ expSeg' = [x \in Expense |->
                    IF x \in ids THEN pays[x]
                    ELSE IF x \in kept /\ expSeg[x] \notin lost THEN expSeg[x] ELSE NoSeg]
        /\ pending' = pending \ {e}
        /\ UNCHANGED linking

\* discard deletes the segments of the email and leaves their trips.
Discard(e) ==
    /\ DropSegments(FiledFrom(e))
    /\ pending' = pending \ {e}
    /\ UNCHANGED linking

\* reparse, reask and not-a-duplicate.
Reparse(e) ==
    /\ pending' = pending \cup {e}
    /\ UNCHANGED <<trips, segments, documents, expenses, linking>>

-----------------------------------------------------------------------------
(* The pages of segments, documents, expenses and trips.                      *)

\* create_segment, under an existing trip or a new one.
CreateSegment(s, t) ==
    /\ s \in ByHand \ Filed
    /\ segTrip' = [segTrip EXCEPT ![s] = t]
    /\ trips' = trips \cup {t}
    /\ UNCHANGED <<priced, documents, expenses, inbox>>

\* update_segment stores the details of its form, which has no price.
UpdateSegment(s) ==
    /\ s \in Filed
    /\ priced' = priced \ {s}
    /\ UNCHANGED <<trips, segTrip, documents, expenses, inbox>>

DeleteSegment(s) ==
    /\ s \in Filed
    /\ DropSegments({s})
    /\ UNCHANGED inbox

\* upload_to_trip and upload_to_segment. A PDF already stored stays as it is.
Upload(d, t, s) ==
    /\ d \notin Stored
    /\ docTrip' = [docTrip EXCEPT ![d] = t]
    /\ docSeg' = [docSeg EXCEPT ![d] = s]
    /\ UNCHANGED <<trips, segments, docEmail, expenses, inbox>>

UploadToTrip(d, t) == t \in trips /\ Upload(d, t, NoSeg)

UploadToSegment(d, s) == s \in Filed /\ Upload(d, segTrip[s], s)

\* Mutant: a segment linked whichever trip it is in.
OnItsTripUnchecked(s, d) == s \in Filed

\* The test of link_to_segment.
OnItsTrip(s, d) == s \in Filed /\ segTrip[s] = docTrip[d]

LinkToSegment(d, s) ==
    /\ d \in Stored /\ OnItsTrip(s, d)
    /\ docSeg' = [docSeg EXCEPT ![d] = s]
    /\ UNCHANGED <<trips, segments, docTrip, docEmail, expenses, inbox>>

UnlinkFromSegment(d) ==
    /\ d \in Stored
    /\ docSeg' = [docSeg EXCEPT ![d] = NoSeg]
    /\ UNCHANGED <<trips, segments, docTrip, docEmail, expenses, inbox>>

DeleteDocument(d) ==
    /\ d \in Stored
    /\ KeepDocs(Doc \ {d}, {})
    /\ UNCHANGED <<trips, segments, expenses, inbox>>

\* create_expense. The page's form names no segment.
CreateExpense(x, t) ==
    /\ x \notin Recorded /\ t \in trips
    /\ expTrip' = [expTrip EXCEPT ![x] = t]
    /\ UNCHANGED <<trips, segments, documents, expSeg, inbox>>

\* update_expense writes the segment of that form, which is none.
UpdateExpense(x) ==
    /\ x \in Recorded
    /\ expSeg' = [expSeg EXCEPT ![x] = NoSeg]
    /\ UNCHANGED <<trips, segments, documents, expTrip, inbox>>

DeleteExpense(x) ==
    /\ x \in Recorded
    /\ KeepExpenses(Expense \ {x}, {})
    /\ UNCHANGED <<trips, segments, documents, inbox>>

\* delete_trip takes everything filed under the trip.
DeleteTrip(t) ==
    LET lost == {s \in Seg : segTrip[s] = t}
    IN  /\ t \in trips
        /\ trips' = trips \ {t}
        /\ KeepSegments(Seg \ lost)
        /\ KeepDocs({d \in Doc : docTrip[d] # t}, lost)
        /\ KeepExpenses({x \in Expense : expTrip[x] # t}, lost)
        /\ UNCHANGED inbox

-----------------------------------------------------------------------------
Worker == Autolink \/ FailBeforeLinks \/ \E e \in Email : FileDrafts(e) \/ FileNothing(e)

Inbox == \E e \in Email :
    \/ \E target \in trips \cup {NoTrip}, known \in SUBSET Carried : Confirm(e, target, known)
    \/ Discard(e)
    \/ Reparse(e)

Pages ==
    \/ \E s \in Seg : UpdateSegment(s) \/ DeleteSegment(s) \/ \E t \in Trip : CreateSegment(s, t)
    \/ \E d \in Doc :
         \/ \E t \in trips : UploadToTrip(d, t)
         \/ \E s \in Seg : UploadToSegment(d, s) \/ LinkToSegment(d, s)
         \/ UnlinkFromSegment(d)
         \/ DeleteDocument(d)
    \/ \E x \in Expense : UpdateExpense(x) \/ DeleteExpense(x) \/ \E t \in trips : CreateExpense(x, t)
    \/ \E t \in trips : DeleteTrip(t)

Next == Worker \/ Inbox \/ Pages

Spec == Init /\ [][Next]_vars

-----------------------------------------------------------------------------
(* Properties.                                                                *)

\* The columns hold what they may, and every foreign key has its row.
TypeOK ==
    /\ trips \subseteq Trip /\ pending \subseteq Email /\ linking \in Email \cup {NoEmail}
    /\ segTrip \in [Seg -> trips \cup {NoTrip}]
    /\ priced \subseteq Filed \cap Carried
    /\ docTrip \in [Doc -> trips \cup {NoTrip, Absent}]
    /\ docSeg \in [Doc -> Filed \cup {NoSeg}]
    /\ docEmail \in [Doc -> Email \cup {NoEmail}]
    /\ \A d \in Doc \ Stored : docSeg[d] = NoSeg /\ docEmail[d] = NoEmail
    /\ expTrip \in [Expense -> trips \cup {NoTrip}]
    /\ expSeg \in [Expense -> Filed \cup {NoSeg}]
    /\ \A x \in Expense \ Recorded : expSeg[x] = NoSeg

\* A segment has at most one expense linked to it: a price is booked once
\* however often its email is confirmed, moved and parsed again, and confirm
\* never meets two (inbox.py, _maybe_create_expense: scalar_one_or_none).
OneLinkedExpense ==
    \A x, y \in Expense : expSeg[x] # NoSeg /\ expSeg[x] = expSeg[y] => x = y

\* A segment's row goes only when the user deletes it, discards its email or
\* deletes its trip: confirm's clean-up of emptied trips takes none with it.
SegmentsGoOnRequest ==
    [][\A s \in Filed \ Filed' :
          \/ DeleteSegment(s)
          \/ \E e \in Email : s \in Drafts[e] /\ Discard(e)
          \/ \E t \in trips : segTrip[s] = t /\ DeleteTrip(t)]_vars

\* A linked document or expense is in its segment's trip.
Together ==
    /\ \A d \in Doc : docSeg[d] # NoSeg => docTrip[d] = segTrip[docSeg[d]]
    /\ \A x \in Expense : expSeg[x] # NoSeg => expTrip[x] = segTrip[expSeg[x]]

\* Nothing but a confirm into another trip parts a document or an expense from
\* its segment: what links does so within one trip (documents.py, link_to_segment;
\* autolink.py), and what moves or deletes one takes care of the other.
OnlyRetargetingParts ==
    [][Together => Together' \/ \E e \in Email, t \in trips, known \in SUBSET Carried : Confirm(e, t, known)]_vars

\* A link is changed by the user only: the worker links what has no link and
\* leaves the others (autolink.py: "Manual links are preserved").
LinksKept ==
    [][\A d \in Doc : docSeg[d] # NoSeg /\ docSeg'[d] \notin {docSeg[d], NoSeg}
          => LinkToSegment(d, docSeg'[d])]_vars

\* The trips a confirm cleans up are empty (inbox.py: "trips that are now
\* empty"): it deletes none that holds documents or expenses.
CleanUpIsEmpty ==
    [][\A t \in trips \ trips' :
          \/ DeleteTrip(t)
          \/ (\A d \in Doc : docTrip[d] # t) /\ (\A x \in Expense : expTrip[x] # t)]_vars
=============================================================================
