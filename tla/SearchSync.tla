----------------------------- MODULE SearchSync -----------------------------
(* The search index follows the database. Requests and the worker commit a    *)
(* change and then, in a step of its own for each row, enqueue sync_meili     *)
(* jobs; a job reads its row and writes or deletes the document of the index. *)
(* `reindex` deletes the indexes and fills them from the tables.              *)
(*                                                                            *)
(* One user, and one worker with one task at a time (saq's concurrency 1).    *)
(* Two queued jobs for one row read the same row and are kept as one. A job   *)
(* enqueued while one of the same key is unfinished may be dropped or not:    *)
(* the code's comments count on neither, and both outcomes are here. The      *)
(* order of a request's enqueues is left out, and so are dates: `edition` is  *)
(* all that a document shows of its row but trip and travelers.               *)
EXTENDS Naturals, FiniteSets

CONSTANTS Trip, Seg, Doc,  \* ids of rows; they name a row for good
          Web,             \* requests in progress at a time
          Worker,          \* the worker, as one that owes enqueues
          Unborn, Gone,    \* the place of a row not yet inserted, and deleted
          Loose,           \* the place of a document with trip_id NULL
          NoTrip, NoRow, Missing,
          MaxWrites,       \* bound: requests, parses and rebuilds
          MaxFaults        \* bound: requests cut short, jobs and rebuilds failed

Part   == Seg \cup Doc
Entity == Trip \cup Part
Edition == {0, 1}

ASSUME RowsAreApart ==
    /\ Trip \cap Seg = {} /\ Trip \cap Doc = {} /\ Seg \cap Doc = {}
    /\ {Unborn, Gone, Loose, NoTrip} \cap Trip = {}
    /\ Unborn # Gone /\ Unborn # Loose /\ Gone # Loose
    /\ NoRow \notin Entity /\ Worker \notin Web
ASSUME BoundsAreNats == MaxWrites \in Nat /\ MaxFaults \in Nat

Document == [edition : Edition, in : Trip \cup {Loose}, shown : BOOLEAN]

ASSUME MissingIsNoDocument == Missing \notin Document

VARIABLES
    born,        \* the trips ever inserted
    trips,       \* the rows of trips
    travelled,   \* the trips with a row in trip_travelers
    mergedInto,  \* trips.merged_into_id, NoTrip for NULL
    moved,       \* merge_audit: the parts a merge moved
    gave,        \* merge_audit: the merge added the traveler to the target
    place,       \* trip_id of segments and documents
    edition,     \* the rest of a row that its document shows
    index,       \* the documents of the three indexes, Missing for none
    queued,      \* the rows with a sync_meili job in the queue
    job,         \* the sync_meili job in progress: its row, what it has read
    owes,        \* the enqueues a committed request or parse has still to do
    deleting,    \* the document a request deletes once its enqueue is done
    stage,       \* the index `reindex` is about to fill, "off" when not running
    batch,       \* the rows it has read for that index
    missed,      \* history: rows changed since, and no sync is due for it
    writes, faults

rows   == <<born, trips, travelled, mergedInto, moved, gave, place, edition>>
search == <<index, queued, job>>
rebuild == <<stage, batch>>
requests == <<owes, deleting>>
vars == <<rows, search, rebuild, requests, missed, writes, faults>>

NoJob == [of |-> NoRow, doc |-> Missing]
NoBatch == [e \in {} |-> Missing]

\* trip_to_doc, segment_to_doc, document_to_doc: what a sync finds of a row.
Row(e) ==
    IF e \in Trip
    THEN IF e \in trips
         THEN [edition |-> edition[e], in |-> e, shown |-> e \in travelled]
         ELSE Missing
    ELSE IF place[e] \in Trip \cup {Loose}
         THEN [edition |-> edition[e], in |-> place[e],
               shown |-> place[e] = Loose \/ place[e] \in travelled]
         ELSE Missing

\* The search route: a query finds the documents that name its user in
\* traveler_ids.
Found(doc) == IF doc # Missing /\ doc.shown THEN doc ELSE Missing
Right(e)   == Found(index[e]) = Found(Row(e))

\* The parts filed under trips of T.
Under(T) == {p \in Part : place[p] \in T}
\* The trips their user can see and edit.
Open == {t \in trips \cap travelled : mergedInto[t] = NoTrip}
Live == {t \in trips : mergedInto[t] = NoTrip}
\* The indexes from a stage on are still to be filled.
Unfilled == [off |-> {}, trips |-> Entity, segments |-> Part, documents |-> Doc]

\* Some rows there already, and an index just built from them.
Init ==
    /\ born \in SUBSET Trip
    /\ trips = born /\ travelled = born
    /\ mergedInto = [t \in Trip |-> NoTrip]
    /\ moved = [t \in Trip |-> {}]
    /\ gave = [t \in Trip |-> FALSE]
    /\ place \in [Part -> born \cup {Unborn}]
    /\ edition = [e \in Entity |-> 0]
    /\ index = [e \in Entity |-> Row(e)]
    /\ queued = {} /\ job = NoJob
    /\ owes = [h \in Web \cup {Worker} |-> {}]
    /\ deleting = [h \in Web |-> NoRow]
    /\ stage = "off" /\ batch = NoBatch
    /\ missed = {}
    /\ writes = 0 /\ faults = 0

-----------------------------------------------------------------------------
(* Changes to the rows. Each is one transaction; `Commit` says what its       *)
(* handler enqueues afterwards and which other rows' documents it has made    *)
(* out of date.                                                               *)

Idle(h) == owes[h] = {} /\ (h \in Web => deleting[h] = NoRow)
Free    == job = NoJob /\ Idle(Worker)

Commit(h, enqueue, silent) ==
    /\ writes < MaxWrites /\ writes' = writes + 1
    /\ Idle(h)
    /\ owes' = [owes EXCEPT ![h] = enqueue]
    /\ missed' = missed \cup silent
    /\ UNCHANGED <<deleting, search, rebuild, faults>>

\* Rows of E that are written to may look any way afterwards.
Edit(E) == \E new \in [E -> Edition] :
              edition' = [e \in Entity |-> IF e \in E THEN new[e] ELSE edition[e]]

Move(P, t) == place' = [p \in Part |-> IF p \in P THEN t ELSE place[p]]

\* Mutant: a foreign key of trip_travelers without ON DELETE CASCADE.
DropTripRows(T) ==
    /\ trips' = trips \ T
    /\ mergedInto' = [t \in Trip |-> IF t \in T \/ mergedInto[t] \in T THEN NoTrip
                                     ELSE mergedInto[t]]
    /\ UNCHANGED <<born, travelled, moved, gave>>

\* DELETE FROM trips: parts go by ON DELETE CASCADE, trips merged into the
\* deleted ones lose merged_into_id by ON DELETE SET NULL.
DropTrips(T) ==
    /\ trips' = trips \ T
    /\ travelled' = travelled \ T
    /\ mergedInto' = [t \in Trip |-> IF t \in T \/ mergedInto[t] \in T THEN NoTrip
                                     ELSE mergedInto[t]]
    /\ UNCHANGED <<born, moved, gave>>

\* create_trip: the row alone, without a traveler.
CreateTrip(h, t) ==
    /\ t \notin born
    /\ born' = born \cup {t} /\ trips' = trips \cup {t}
    /\ Commit(h, {t}, {})
    /\ UNCHANGED <<travelled, mergedInto, moved, gave, place, edition>>

UpdateTrip(h, t) ==
    /\ t \in Open
    /\ Edit({t})
    /\ Commit(h, {t}, {})
    /\ UNCHANGED <<born, trips, travelled, mergedInto, moved, gave, place>>

\* Mutant: the handler enqueues nothing.
DeleteTripQuietly(h, t) ==
    /\ t \in Open
    /\ DropTrips({t})
    /\ Move(Under({t}), Gone)
    /\ Commit(h, {}, Under({t}))
    /\ UNCHANGED edition

DeleteTrip(h, t) ==
    /\ t \in Open
    /\ DropTrips({t})
    /\ Move(Under({t}), Gone)
    /\ Commit(h, {t}, Under({t}))
    /\ UNCHANGED edition

\* merge_into. The target may get the source's traveler, and with it all of its
\* parts a new reader.
MergeInto(h, s, t) ==
    /\ s # t /\ s \in Live /\ t \in Live
    /\ LET given == s \in travelled /\ t \notin travelled
       IN  /\ travelled' = (travelled \ {s}) \cup (IF given THEN {t} ELSE {})
           /\ gave' = [gave EXCEPT ![s] = given]
           /\ Commit(h, {s, t}, Under({s}) \cup (IF given THEN Under({t}) ELSE {}))
    /\ Move(Under({s}), t)
    /\ moved' = [moved EXCEPT ![s] = Under({s})]
    /\ mergedInto' = [mergedInto EXCEPT ![s] = t]
    /\ Edit({t})
    /\ UNCHANGED <<born, trips>>

\* undo_merge, in its seven days. The source has its creator for a traveler
\* again; the target loses the one it was given.
UndoMerge(h, s, t) ==
    /\ s \in trips /\ mergedInto[s] = t /\ t \in Live
    /\ LET back == moved[s] \cap Under({t})
       IN  /\ Move(back, s)
           /\ Commit(h, {s, t},
                     Under({s}) \cup back \cup (IF gave[s] THEN Under({t}) ELSE {}))
    /\ travelled' = (travelled \ (IF gave[s] THEN {t} ELSE {})) \cup {s}
    /\ mergedInto' = [mergedInto EXCEPT ![s] = NoTrip]
    /\ moved' = [moved EXCEPT ![s] = {}]
    /\ gave' = [gave EXCEPT ![s] = FALSE]
    /\ Edit({t})
    /\ UNCHANGED <<born, trips>>

\* Creating a segment, in a trip the user can see or in one created with it,
\* whose traveler is the user.
CreateSegment(h, s, t) ==
    /\ place[s] = Unborn /\ (t \in Open \/ t \notin born)
    /\ born' = born \cup {t} /\ trips' = trips \cup {t}
    /\ travelled' = travelled \cup {t}
    /\ Move({s}, t)
    /\ Edit({t})
    /\ Commit(h, {t, s}, {})
    /\ UNCHANGED <<mergedInto, moved, gave>>

\* The form edits the segment and widens its trip.
UpdateSegment(h, s) ==
    /\ place[s] \in Open
    /\ Edit({s, place[s]})
    /\ Commit(h, {s, place[s]}, {})
    /\ UNCHANGED <<born, trips, travelled, mergedInto, moved, gave, place>>

\* Deleting segments takes segment_id from the documents linked to them.
DeleteSegments(h, S, linked) ==
    /\ Move(S, Gone)
    /\ Edit(linked)
    /\ Commit(h, S, linked)
    /\ UNCHANGED <<born, trips, travelled, mergedInto, moved, gave>>

Stored == {d \in Doc : place[d] \in Trip \cup {Loose}}
Filed  == {s \in Seg : place[s] \in Trip}

DeleteSegment(h, s) ==
    /\ place[s] \in Open
    /\ \E linked \in SUBSET Stored : DeleteSegments(h, {s}, linked)

\* Discarding an email deletes the segments read from it.
Discard(h, S) ==
    /\ S # {} /\ S \subseteq Filed
    /\ \E linked \in SUBSET Stored : DeleteSegments(h, S, linked)

\* Confirming an email for a trip: its segments go there, the trips they leave
\* empty are deleted with the documents left in them. Jobs are due for the
\* trips alone.
Retarget(h, S, t) ==
    /\ S # {} /\ S \subseteq Filed /\ t \in Live
    /\ LET emptied == {u \in {place[s] : s \in S} \ {t} : Under({u}) \cap Seg \subseteq S}
           lost == Under(emptied) \ S
       IN  /\ DropTrips(emptied)
           /\ place' = [p \in Part |-> IF p \in S THEN t ELSE IF p \in lost THEN Gone ELSE place[p]]
           /\ Commit(h, {t} \cup emptied, S \cup lost)
    /\ Edit({t})

\* An upload. The text is extracted and the document synced by a later job.
Upload(h, d, t) ==
    /\ place[d] = Unborn /\ t \in Open
    /\ Move({d}, t)
    /\ Commit(h, {}, {d})
    /\ UNCHANGED <<born, trips, travelled, mergedInto, moved, gave, edition>>

\* link, unlink and autolink sync nothing; autolink takes the document into
\* its segment's trip.
Relink(h, d) ==
    /\ d \in Stored
    /\ \/ UNCHANGED place
       \/ \E s \in Filed : Move({d}, place[s])
    /\ Edit({d})
    /\ Commit(h, {}, {d})
    /\ UNCHANGED <<born, trips, travelled, mergedInto, moved, gave>>

\* Deleting a document enqueues its job first and deletes the row afterwards.
DeleteDocument(h, d) ==
    /\ writes < MaxWrites /\ writes' = writes + 1
    /\ Idle(h)
    /\ d \in Stored
    /\ owes' = [owes EXCEPT ![h] = {d}]
    /\ deleting' = [deleting EXCEPT ![h] = d]
    /\ UNCHANGED <<rows, search, rebuild, missed, faults>>

\* When the job has been taken by then, it has read the row; none will again.
DocumentDeleted(h) ==
    /\ deleting[h] # NoRow /\ owes[h] = {}
    /\ Move({deleting[h]}, Gone)
    /\ missed' = IF deleting[h] \in queued THEN missed ELSE missed \cup {deleting[h]}
    /\ deleting' = [deleting EXCEPT ![h] = NoRow]
    /\ UNCHANGED <<born, trips, travelled, mergedInto, moved, gave, edition,
                   search, rebuild, owes, writes, faults>>

\* The commit of a parse: segments in trips the user has or in new ones, and
\* attachments without a trip, whose text other jobs extract.
Parse(S, t, D) ==
    /\ Free
    /\ S # {} /\ \A p \in S \cup D : place[p] = Unborn
    /\ t \in Open \/ t \notin born
    /\ born' = born \cup {t} /\ trips' = trips \cup {t}
    /\ travelled' = travelled \cup {t}
    /\ place' = [p \in Part |-> IF p \in S THEN t ELSE IF p \in D THEN Loose ELSE place[p]]
    /\ Commit(Worker, S \cup ({t} \ born), D)
    /\ UNCHANGED <<mergedInto, moved, gave, edition>>

\* extract_document: the text is committed, then its sync enqueued.
Extract(d) ==
    /\ Free /\ d \in Stored
    /\ Edit({d})
    /\ Commit(Worker, {d}, {})
    /\ UNCHANGED <<born, trips, travelled, mergedInto, moved, gave, place>>

\* The daily purge. It enqueues nothing: a merged trip has no traveler and is
\* not found anyway.
Purge(T) ==
    /\ Free
    /\ T # {} /\ \A t \in T : t \in trips /\ mergedInto[t] # NoTrip
    /\ DropTrips(T)
    /\ Move(Under(T), Gone)
    /\ Commit(Worker, {}, Under(T))
    /\ UNCHANGED edition

Write ==
    \/ \E h \in Web, t \in Trip :
          CreateTrip(h, t) \/ UpdateTrip(h, t) \/ DeleteTrip(h, t)
    \/ \E h \in Web, s, t \in Trip : MergeInto(h, s, t) \/ UndoMerge(h, s, t)
    \/ \E h \in Web, s \in Seg, t \in Trip : CreateSegment(h, s, t)
    \/ \E h \in Web, s \in Seg : UpdateSegment(h, s) \/ DeleteSegment(h, s)
    \/ \E h \in Web, S \in SUBSET Seg : Discard(h, S)
    \/ \E h \in Web, S \in SUBSET Seg, t \in Trip : Retarget(h, S, t)
    \/ \E h \in Web, d \in Doc, t \in Trip : Upload(h, d, t)
    \/ \E h \in Web \cup {Worker}, d \in Doc : (h = Worker => Free) /\ Relink(h, d)
    \/ \E h \in Web, d \in Doc : DeleteDocument(h, d)
    \/ \E S \in SUBSET Seg, t \in Trip, D \in SUBSET Doc : Parse(S, t, D)
    \/ \E d \in Doc : Extract(d)
    \/ \E T \in SUBSET Trip : Purge(T)

-----------------------------------------------------------------------------
(* Jobs.                                                                      *)

Fault == faults < MaxFaults /\ faults' = faults + 1

\* Mutant: one key for the jobs of all rows.
EnqueueSharedKey(h, e) ==
    /\ e \in owes[h]
    /\ owes' = [owes EXCEPT ![h] = @ \ {e}]
    /\ \/ queued' = queued \cup {e} /\ UNCHANGED missed
       \/ /\ job # NoJob /\ UNCHANGED queued
          /\ missed' = IF e \in queued THEN missed ELSE missed \cup {e}
    /\ UNCHANGED <<rows, index, job, rebuild, deleting, writes, faults>>

\* enqueue_meili_sync: queued, or dropped behind an unfinished job of the row,
\* which has read the row already.
Enqueue(h, e) ==
    /\ e \in owes[h]
    /\ owes' = [owes EXCEPT ![h] = @ \ {e}]
    /\ \/ queued' = queued \cup {e} /\ UNCHANGED missed
       \/ /\ job.of = e /\ UNCHANGED queued
          /\ missed' = IF e \in queued THEN missed ELSE missed \cup {e}
    /\ UNCHANGED <<rows, index, job, rebuild, deleting, writes, faults>>

\* Redis cannot be reached, or the process dies: what a request has left to
\* enqueue is lost, and a document not yet deleted stays.
Abandon(h) ==
    /\ Fault /\ owes[h] # {}
    /\ owes' = [owes EXCEPT ![h] = {}]
    /\ LET undone == h \in Web /\ deleting[h] # NoRow
       IN  /\ missed' = IF undone THEN missed ELSE missed \cup owes[h]
           /\ deleting' = IF undone THEN [deleting EXCEPT ![h] = NoRow] ELSE deleting
    /\ UNCHANGED <<rows, search, rebuild, writes>>

\* sync_meili begins: the row is read. A rebuild that has read it before may
\* yet write the older document over this one.
Take(e) ==
    /\ Free /\ e \in queued
    /\ queued' = queued \ {e}
    /\ job' = [of |-> e, doc |-> Row(e)]
    /\ missed' = IF e \in DOMAIN batch THEN missed \cup {e} ELSE missed \ {e}
    /\ UNCHANGED <<rows, index, rebuild, requests, writes, faults>>

\* Its document is updated, or deleted when there was no row.
Finish ==
    /\ job # NoJob
    /\ index' = [index EXCEPT ![job.of] = job.doc]
    /\ job' = NoJob
    /\ UNCHANGED <<rows, queued, rebuild, requests, missed, writes, faults>>

\* Mutant: a failed job is never tried again.
FailForGood ==
    /\ Fault /\ job # NoJob
    /\ job' = NoJob
    /\ UNCHANGED <<rows, index, queued, missed, rebuild, requests, writes>>

\* The job fails. It is tried again, or that was the last of its retries.
Fail ==
    /\ Fault /\ job # NoJob
    /\ job' = NoJob
    /\ \/ queued' = queued \cup {job.of} /\ UNCHANGED missed
       \/ missed' = missed \cup {job.of} /\ UNCHANGED queued
    /\ UNCHANGED <<rows, index, rebuild, requests, writes>>

-----------------------------------------------------------------------------
(* reindex_all, run from the command line beside the application.             *)

Wipe ==
    /\ writes < MaxWrites /\ writes' = writes + 1
    /\ stage = "off" /\ stage' = "trips"
    /\ index' = [e \in Entity |-> Missing]
    /\ missed' = missed \cap {job.of}
    /\ UNCHANGED <<rows, queued, job, batch, requests, faults>>

\* The rows it selects for an index: trips not merged, all segments, all
\* documents.
Selected == [off |-> {}, trips |-> Live, segments |-> Filed, documents |-> Stored]

Reading == stage # "off" /\ batch = NoBatch

\* Every row of a kind is read before the first of them is written.
ReadRows ==
    /\ Reading /\ Selected[stage] # {}
    /\ batch' = [e \in Selected[stage] |-> Row(e)]
    /\ missed' = missed \ {e \in Selected[stage] : job.of # e}
    /\ UNCHANGED <<rows, search, stage, requests, writes, faults>>

Following == [off |-> "off", trips |-> "segments", segments |-> "documents", documents |-> "off"]

WriteIndex ==
    /\ batch # NoBatch \/ (Reading /\ Selected[stage] = {})
    /\ index' = [e \in Entity |-> IF e \in DOMAIN batch THEN batch[e] ELSE index[e]]
    /\ batch' = NoBatch
    /\ stage' = Following[stage]
    /\ UNCHANGED <<rows, queued, job, requests, missed, writes, faults>>

\* It fails: the indexes it has not filled stay as they are.
RebuildFails ==
    /\ Fault /\ stage # "off"
    /\ stage' = "off" /\ batch' = NoBatch
    /\ missed' = missed \cup Unfilled[stage]
    /\ UNCHANGED <<rows, search, requests, writes>>

Sync ==
    \/ \E h \in Web \cup {Worker}, e \in Entity : Enqueue(h, e)
    \/ \E h \in Web \cup {Worker} : Abandon(h)
    \/ \E h \in Web : DocumentDeleted(h)
    \/ \E e \in Entity : Take(e)
    \/ Finish \/ Fail
    \/ Wipe \/ ReadRows \/ WriteIndex \/ RebuildFails

Next == Write \/ Sync

\* Requests go on once begun, and so do the worker and a rebuild. No write is
\* ever due.
Fairness ==
    /\ \A h \in Web \cup {Worker}, e \in Entity : WF_vars(Enqueue(h, e))
    /\ \A h \in Web : WF_vars(DocumentDeleted(h))
    /\ \A e \in Entity : WF_vars(Take(e))
    /\ WF_vars(Finish) /\ WF_vars(ReadRows) /\ WF_vars(WriteIndex)

Spec == Init /\ [][Next]_vars
FairSpec == Spec /\ Fairness

-----------------------------------------------------------------------------
(* Properties.                                                                *)

\* The state is of its type, and the parts of a trip have their trip's row.
TypeOK ==
    /\ born \in SUBSET Trip /\ trips \in SUBSET born /\ travelled \in SUBSET trips
    /\ mergedInto \in [Trip -> Trip \cup {NoTrip}]
    /\ moved \in [Trip -> SUBSET Part] /\ gave \in [Trip -> BOOLEAN]
    /\ place \in [Part -> trips \cup {Unborn, Gone, Loose}]
    /\ edition \in [Entity -> Edition]
    /\ index \in [Entity -> Document \cup {Missing}]
    /\ queued \in SUBSET Entity
    /\ job \in [of : Entity, doc : Document \cup {Missing}] \cup {NoJob}
    /\ owes \in [Web \cup {Worker} -> SUBSET Entity]
    /\ deleting \in [Web -> Doc \cup {NoRow}]
    /\ stage \in {"off", "trips", "segments", "documents"}
    /\ DOMAIN batch \in SUBSET Unfilled[stage]
    /\ batch \in [DOMAIN batch -> Document \cup {Missing}]
    /\ missed \in SUBSET Entity
    /\ writes \in 0 .. MaxWrites /\ faults \in 0 .. MaxFaults

InFlight(e) ==
    \/ \E h \in Web \cup {Worker} : e \in owes[h]
    \/ e \in queued \/ job.of = e
    \/ e \in Unfilled[stage]

\* Search answers with the row as it is now, or a sync or a rebuild of it is on
\* its way, or it is one of the rows known to be missed: each handler enqueues
\* every row whose document it has changed, but for the parts it moves.
RightUnlessMissed ==
    \A e \in Entity : InFlight(e) \/ e \in missed \/ Right(e)

\* A trip, unlike its parts, is missed only by accident: a fault, a job that was
\* dropped behind one that had read too early, a rebuild alongside.
TripsMissedByAccident ==
    [][\A t \in Trip : t \in missed' \ missed =>
          faults' # faults \/ job.of = t \/ stage # "off"]_vars

\* Once writes and faults stop, jobs are worked off and search is right again.
CatchesUp == \A e \in Entity : []<>(e \in missed \/ Right(e))
=============================================================================
