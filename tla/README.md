# Trip Tracker in TLA+

Trip Tracker files travel bookings. Confirmation emails are forwarded to it; a
worker parses them into segments (flights, stays, trains, cars) and files the
segments in trips; a user reads, corrects, merges and shares the trips in a web
application. This directory models the parts of it in which several actors
change the same rows: what they promise, how they do it, and where the two
disagree. Paths below are relative to the repository; `T/` stands for
`src/trip_tracker/`.

Run TLC and TLAPS in this directory:

    tlc -workers 2 -config merge_apart.cfg MCTripMerge
    tlapm TripMergeProofs.tla

`PROJECT.json` lists the runs, the source lines behind every definition, the
hazards the properties are for, the disagreements found, and the theorems.

## 1. Inventory

Three processes share a Postgres database: the web application (FastAPI, one
asynchronous session and transaction per request, READ COMMITTED), the saq worker
(one job at a time, `concurrency: 1`, jobs from Redis, a daily cron job), and the
administrator's commands (`python -m trip_tracker`). Meilisearch holds a search
index that jobs keep up to date. No handler takes a row lock: whatever a request
reads before an `await` may have changed when it writes.

| Component | State | Operations | What is hard, and what makes it correct |
|---|---|---|---|
| Trip merge, undo, purge: `T/trips/merge.py`, `T/routes/trips.py`, `T/worker.py` (cron) | `trips` (dates, `merged_into_id`, `merged_at`, `merge_audit`), `trip_travelers`, `trip_id` of segments, expenses and documents | create, edit, delete, merge-into, undo-merge (7 days), the daily purge | Sequences of merges, chains of them, undo in any order, cascades of the purge, requests across a merge. Nothing is lost or misplaced, a soft-deleted trip is empty, a chain is purged from its far end, every merge ends |
| Segments: `T/routes/segments.py` | `segments` | create (new or existing trip, widening its dates), edit, delete | Check-then-insert across a merge or deletion |
| Email ingest: `T/ingest/` | `raw_emails`, the queue | two webhooks, Message-ID dedup, best-effort enqueue | Duplicate and lost deliveries; every email is answered |
| Parse worker: `T/worker.py`, `T/__main__.py` | the job in progress | `parse_raw_email`, `extract_document`, `sync_meili`, `refresh_weather`, `purge_merged_trips`; `parse_pending` | Five attempts, failures between two commits, user actions during a job |
| Dispatch, dedup, budget: `T/parsers/{dispatch,dedup,budget}.py` | `llm_budget` | rules first, then the LLM under a daily cap; strong and medium matches against existing segments | One segment per booking; the cap |
| Inbox: `T/routes/inbox.py` | `parse_status` | confirm (with retargeting and auto-expense), discard, reparse, reask, not-a-duplicate | Actions that race with the worker, double submits, cascades of emptied trips |
| Clustering: `T/parsers/cluster.py` | none | chooses a trip for a draft: the best candidate, an ambiguous one, or a new trip | A margin of 20 %, dates a day apart, rows in any order. The choice is forced, and a stay is not split |
| Extraction rules, LLM: `T/parsers/{jsonld,llm,forwarded,enrich}.py`, vendors | none | text to drafts | Strings; outside the model |
| Documents: `T/documents/`, `T/routes/documents.py` | `documents`, files by content hash | upsert from email and upload, extraction, links, deletion | Jobs queued after commits, retries that find rows already there |
| Expenses: `T/routes/expenses.py`, `T/expenses/`, `T/routes/settings.py` | five columns of `expenses`, `home_currency`, cached rates | create, edit, delete, booking by confirm, change of the home currency | A request waits seconds for a rate while settings, rows and the date change. Amounts match, in the currency the form showed |
| Consolidation: `T/trips/consolidation.py`, `T/trips/home.py` | `trip_merge_dismissals` | offers on two pages, dismissals | Seen from either trip; missing cities. Offers are mutual, dismissals last |
| Search: `T/search/` | the index | keyed sync jobs, reindex | Lost and reordered updates of a cache |
| Sign-in, access: `T/auth/`, `T/routes/admin.py` | `users`, `forwarding_aliases` | callback; create, change and delete aliases; the inbox's filter | Ownership of an email is derived, each time, from aliases that change. One reader, one owner, one copy; nothing is lost |
| Calendar feed: `T/ics/`, `T/routes/ics.py`, `T/routes/settings.py` | `ics_token_hash` | replace the token, render | Little: one column |
| Map, weather, home page, set-up | a forecast cache | read-only views | No state another part relies on |

Interactions: webhook -> queue -> worker -> trips and segments; inbox actions ->
the same queue; merge and purge -> everything that has a `trip_id`; worker ->
extraction jobs -> documents; every write -> sync jobs -> index.

## 2. Plan

Modules, in the order in which they were built, the riskiest behaviour first. Each
has an `MC` module with its instance and a `Proofs` module.

1. `TripMerge` with `TripLedger`, its promise: merges, undo and purge.
2. `EmailPipeline`: from a delivery to segments, with retries and the budget.
3. `TripFiling`: what confirm, discard and the pages do to trips and what is in them.
4. `SearchSync`: the index as a copy of the tables.
5. `TripMatching`: the rules that say what belongs together - dedup, clustering,
   suggestions - and the tables they are applied to.
6. `Money`: rates and home amounts of expenses.
7. `Mailbox`: sign-in, aliases, and whose email and booking is whose.

The same handler may be in several modules, each with the part of the state it is
about; the table of each section says which. Left on the plan: the calendar feed,
should it get state.

## 3. TripMerge

One user's trips and *items* (a segment, an expense or a document: merge and undo
treat them alike). The state is the tables' columns: `exists` the rows of `trips`,
`span` their dates, `travelled` the trips with a `trip_travelers` row, `mergedInto`,
`mergedAge` (time since `merged_at`) and `audit` the three merge columns, `tripOf`
each item's `trip_id`. `session` holds what each request in progress has in memory.

| Code | Actions |
|---|---|
| `create_trip` | `CreateTrip` (the row alone: it adds no traveler) |
| `create_segment` with a new trip; the worker's `create_new` | `CreateTripWithItem` |
| `create_segment` with an existing trip, expenses, uploads, the worker's `attach` | `LoadAttach`, `ApplyAttach` |
| `delete_segment`, `delete_expense` | `DeleteItem` |
| `update_trip`, `delete_trip` | `LoadEdit`, `ApplyEdit`, `LoadDelete`, `ApplyDelete` |
| `merge_into` and `merge_trip_into` | `LoadMerge`, `CaptureMerge`, `ApplyMerge` |
| `undo_merge` and `undo_merge_trip` | `LoadUndo`, `ApplyUndo` |
| `purge_merged_trips` | `Sweep` |
| a rolled-back transaction | `Rollback` |

`Load*` is the SELECT and its checks, `Apply*` everything from the first write to
the commit; `CaptureMerge` is the SELECTs for the audit, which come before the
UPDATEs. An ORM update writes only the columns whose value differs from the loaded
one (`NewSpan`), and fails when the row is gone (`Commits`). A cascade is
`DeleteRows`, with `SET NULL` on `merged_into_id`.

Two things are abstracted. Companions: the program adds only a trip's creator as
its traveler, so a trip has its traveler or none. A document upload looks at the
traveler row and not at `merged_into_id`; the two agree as long as merging deletes
the row, so both are `Reachable`.

`TripLedger` is the promise: merging one trip into another only points the first
at the second; every item has a *home* and is shown where its home leads; an undo
drops the pointer, a purge makes it permanent. `MCTripMerge` maps the code's state
to it: the soft-deleted trips whose audit names an item (`Claims`) are a chain of
merges that ends in the trip the item is in, and its home is the first of them.
`ImplementsLedger` says that every step of the code is one of the ledger or none,
so that "lossless undo" is checked over every sequence of operations and not as a
slogan.

### Runs

`merge_apart` (passes): three trips, one item, two requests in progress at a
time, an undo window of one tick, under `ApartSpec`. Three trips are needed for a
chain and for two merges into one target; one item suffices, since no step reads
where another item is, and it is filed before or after any merge; a window of one
tick for a target merged after its source. The clock and the purge interleave with
the requests. Checked: `TypeOK`, `ShellsAreEmpty`, `ChainsOrdered`, `NoCycles`,
`MergesStand`, `SweepOrphansNothing`, `ImplementsLedger`, `MergesAreResolved`. One day in the
calendar suffices: no property of this run reads the dates.

`Apart` is an assumption on the requests, not something the code enforces: while a
merge or undo is in progress no other request merges, undoes, deletes or files into
its source. Its target may be shared, by another merge into it too. It is what a
lock on the source's row and a shared one on the target's would give; one request
at a time is a special case. The handlers take no locks, and `merge_race` shows
that the assumption is needed.

Two runs show where the code differs from its documentation, each with the
smallest instance that does:

- `merge_race`: with two requests in progress, an item filed under a trip that is
  merged between check and insert stays in the shell, which the purge deletes with
  it (`PurgeFindsShells`).
- `undo_strands`: `create_trip` adds no traveler, contrary to the comment in
  `merge.py`; a merge brings one, its undo takes it away, and what was filed
  meanwhile is in a trip nobody can open (`NoItemStranded`).

Deadlock is not checked in these runs: trip and item ids are used once, and a
history that has used them all and purged everything stops.

Fairness (`FairSpec`): weak fairness of `Tick` (time passes) and of `Sweep` (the
cron job runs daily). No request is assumed ever to be made or to finish.

### Proofs (`TripMergeProofs`, `TripLedgerProofs`)

`TypeCorrect` holds for every number of trips, items, requests and days, however
they interleave. The other theorems are about `ApartSpec`, again for every number
of each.

`EmptyShells`, `OrderedChains`, `NoOrphans`, `MergesStay`: `TypeOK` is inductive; on top of it
`ApartInv` adds, for each request in progress, that what it has checked still holds
(`Undisturbed`: the two trips of a merge and the target of an undo or a new item
are still live). Another request merges away only its own source, which by
`Apart` nobody else uses, and the purge takes neither a live trip nor, because
chains are ordered, the target of one it leaves behind. `ShellsAreEmpty` and
`ChainsOrdered` are conjuncts of that invariant. They do not carry themselves: when
a merge commits, its target must still be live, or its items end up in a shell.
`NoOrphans` is an action property from `ChainsOrdered`. `MergesStay` is one from
`Undisturbed`: the source of a merge is still live when the merge commits, so that
none writes the three columns of a trip that is merged already; only an undo, or
the deletion of its target, clears them.

`MergeImplementsLedger` and `MergesEnd` need three more conjuncts (`LedgerInv`):
the claims to an item form a chain that ends where the item is (`ClaimsChain`); no
audit names an item not yet inserted (`NewItems`); and what a request has captured
is still so when it writes (`Prepared`: the items of a merge's source are those it
captured, the audit an undo read is still the source's). The refinement is then
taken step by step: `MergeRefines` puts the source at the end of the chain of every
item it moves, `UndoRefines` takes it off again, `RemoveRefines` cuts nothing that
stays, `SweepRefines` takes the front of a chain and leaves the rest, whose first
trip is the ledger's heir, and every other step leaves homes alone. Two
things replace the induction over the length of a chain that the provers cannot do.
A chain is said to end by `NoCycles`' form, every non-empty part of it has a trip
whose successor is outside the part, so that an argument by induction is one by the
set of its counterexamples. And the ledger's recursive functions `Root` and `Heir`
are shown to exist, as the least closed relation (`WalkExists`), before they are
unfolded.

The constants are assumed to be what the module's `ASSUME`s say: the markers are
no trips, days are integers and there is one, the window is a natural number.

## 4. EmailPipeline

An email from delivery to its segments. `status` is `parse_status`, `segs` the
segments with the email each came from, `docs` the documents' `extract_status`,
`spent` today's `cost_cents`, `jobs` and `extracts` the queue, `worker` what
`_parse_raw_email` holds between two awaits. `overridden` is history, for one
property. A *booking* is what a segment describes: dedup is taken to recognise it
whichever email confirms it; that the matching rules do so is a question about
`dedup.py` alone.

| Code | Actions |
|---|---|
| `ingest_email`, `ingest_forwardemail`, `_persist_raw_email`, `enqueue_parse` | `Deliver` (the enqueue may fail and is only logged) |
| `parse_pending` | `ParsePending` |
| `reparse`, `reask`, `not_a_duplicate` | `Reparse`, `NotADuplicate` |
| `discard`, `confirm` | `Discard`, `Confirm` (the part on the email) |
| `delete_segment` | `DeleteSegment` |
| `_parse_raw_email`, in order | `SkipJob`, `NoAlias` or `Begin`; `DispatchRules` or `DispatchLlm`; `Match`; `CommitParse`; `EnqueueExtracts` |
| saq: failure, timeout or death of a job | `FailJob` |
| `extract_document` | `Extract` |
| midnight | `NewDay` |

`DispatchLlm` commits: `record_usage` ends with a commit on the job's own session,
which makes the documents inserted so far visible before the parse is over. The
final commit writes the verdict over whatever the user did to the status since.

### Runs

`pipeline` (passes): two emails that confirm the same flight, the second a hotel
too, both with the same boarding pass attached; the rules read the first weakly
and the second not at all, so that both reach the LLM and the budget. Two attempts
per job instead of five, a cap of one cent, calls of at most one cent, one copy of
a job in the queue and one failure: enough for a retry, for a lost enqueue, for a
budget that runs out between two emails and for a second parse of an email that
has segments. The bounds `MaxCost`, `MaxCopies` and `MaxFaults` are guards of the
model and not of the code. Checked: `TypeOK`, `NoDoubleBooking`, `SpendWithinCap`,
`ExtractsFindRows`, `EachFailureStrandsOne`, `EmailsAreAnswered`.

- `not_a_duplicate`: the override is not recorded, the dedup gate runs again and
  gives the same answer (`NotADuplicateSticks`). An email parsed again is matched
  with its own segments too.
- `extract_rerun`: a job that fails after its documents were committed leaves them
  pending; the retry finds them existing and queues no extraction, contrary to the
  docstring (`RerunRetriesDocs`).

Fairness (`FairSpec`): the worker process runs (`Work`), takes the jobs of every
email in turn (strong fairness, since a job in progress disables taking another)
and somebody keeps running `parse_pending`, which the docstring of `enqueue_parse`
names as the recovery path. Without the last assumption `EmailsAreAnswered` is
false: five failures or one lost enqueue leave an email pending. Failures are
bounded by `MaxFaults`. No user is assumed to do anything.

### Proofs (`EmailPipelineProofs`)

`BookedOnce`, `CapHolds`, `RowsBeforeJobs` and `PipelineTypes`, for every set of
emails, bookings and documents and every cap, cost and number of attempts. The
inductive invariant adds to the properties what the job in progress knows
(`JobInv`): the drafts it took for fresh are in no segment - true until its commit
since no other job runs - and the documents it means to queue are committed once
the job is past its commit. It uses that there is one worker process with
concurrency 1, as `docker-compose.yml` and `worker.settings` have it; with two,
`BookedOnce` and `CapHolds` would fail.

`StrandedByFailures` is the part of `EmailsAreAnswered` that is a safety property:
the pending emails for which no job is queued or still has its verdict to write
(`Stranded`) are at most as many as the failures so far. It is shown step by step
that a step without a failure strands no email and one with a failure at most the
email it is about: a job that leaves the queue is taken on or its email answered
(`TakeStrands`), a new job serves the email whatever the worker is doing
(`EnqueueStrands`), a failed job strands its email when it was its last attempt and
no other is queued (`FailStrands`). The set is finite though `Message` may not be
(`StrandedInv`), because it starts empty and grows by one email at a time. That
every email is answered in the end needs fairness and stays with TLC.

## 5. TripFiling

Where things are filed. `segTrip`, `docTrip` and `expTrip` are the `trip_id`
columns, `docSeg` and `expSeg` the links to a segment, `docEmail` the email a
document came with, `priced` the segments whose `details` have a price, `pending`
the emails to parse, `linking` the email whose parse has committed while its links
are still to be made. `NoTrip` in `docTrip` is NULL, `Absent` a document without
a row. Ids are used again when their row is gone, so there is no last id at which
a history ends.

| Code | Actions |
|---|---|
| `_parse_raw_email` up to its commit, `persist_pdf_attachments` | `FileDrafts`, `FileNothing` |
| `autolink_pending_for_email` | `Autolink`; `FailBeforeLinks` when the job dies before it |
| `confirm`, `_maybe_create_expense` | `Confirm` with a target or without: `Moved`, `Emptied`, `Due` are its three parts |
| `discard`; `reparse`, `reask`, `not_a_duplicate` | `Discard`; `Reparse` |
| `create_segment`, `update_segment`, `delete_segment` | `CreateSegment`, `UpdateSegment`, `DeleteSegment` |
| `upload_to_trip`, `upload_to_segment`, `link_to_segment`, `unlink`, `delete_document` | `UploadToTrip`, `UploadToSegment`, `LinkToSegment`, `UnlinkFromSegment`, `DeleteDocument` |
| `create_expense`, `update_expense`, `delete_expense` | `CreateExpense`, `UpdateExpense`, `DeleteExpense` |
| `delete_trip` | `DeleteTrip` |

`KeepSegments`, `KeepDocs` and `KeepExpenses` are the schema's cascades: rows of a
deleted trip go, links to a deleted segment become NULL. `Confirm` goes in the
order of the code: segments move, emptied trips are deleted with what they hold,
and only then is an expense looked for, so that an expense lost with its trip is
booked again. A rate that cannot be had (`known`) leaves a segment without one.

Abstractions. A request is one transaction here; requests that race across a
merge are in `TripMerge`. The worker's job is two transactions, as in the code,
and everything may happen between them. Every trip is live and has its traveler.
Clustering is a choice among all trips. Which segment an attachment's name matches
is the constant `Names`. The drafts of two emails are disjoint: recognising a
booking across emails is `EmailPipeline`'s subject.

### Runs

`filing` (passes): one email with a flight, a hotel and a boarding pass named for
the flight, a check-in email that brings the pass again and no segment, a dinner
entered by hand, three trips, two expenses; the flight has a price. Three trips
let a confirm empty two at once, or leave one that still holds the dinner; two
expenses are enough for a price booked twice, and the second email for a document
that changes its email while linked. Trips and expenses are symmetric; emails,
segments and documents are named. Checked: `TypeOK`, `OneLinkedExpense`,
`SegmentsGoOnRequest`, `OnlyRetargetingParts`, `LinksKept`. Deadlock is not checked:
with every id in use the system only waits for its user. There is no fairness in
this module, nothing here has to happen.

- `filing_cleanup`: a confirm into another trip moves the segments and leaves the
  documents and expenses, then deletes the old trip as empty because it counts
  segments alone; a boarding pass linked by the worker a moment ago is deleted by
  cascade (`CleanUpIsEmpty`).

The form of a segment has no field for a price, so correcting a segment before its
email is confirmed drops it (`UpdateSegment`), and the confirm books nothing,
although `src/README.md` says that it does "when the email carried a price".

`OnlyRetargetingParts` admits the first of these: a retargeting confirm into a
trip the pass is not in parts the two when the old trip survives. It says that
nothing else does.

### Proofs (`TripFilingProofs`)

`ForeignKeys`, `BooksOnce`, `SegmentsStay`, `LinksStay` and `OthersKeepTogether`, for
every set of trips, emails, segments, documents and expenses. `TypeOK` with
`OneLinkedExpense` is inductive: a confirm links new expenses, one to each of the
segments that no expense *left after the clean-up* is linked to, and `TypeOK` says
that a link leads to a segment that is there. The action properties follow from that
invariant, one step per action. In `SegmentsStay` the point is `Confirm`: a trip
it deletes holds no segment once the segments of the email have moved, so the
cascade takes none. In `OthersKeepTogether` it is the confirm without a target,
which moves nothing and only books expenses in their segments' trips.

`BooksOnce` rests on requests being one transaction. Two confirms of an email that
has left `pending` already take no row lock; the hazard at `inbox.py:185` says so.

## 6. SearchSync

The index as a copy of the tables. A handler commits its change and then enqueues
`sync_meili` jobs one at a time, each in a step of its own; a job reads its row
and, in a second step, writes or deletes the document; `reindex` wipes the indexes
and fills them, reading all rows of a kind before it writes the first. `place` is
the `trip_id` of a segment or document (`Unborn`, `Gone` and `Loose` where there is
none), `edition` everything else a document shows of its row, `owes` what a request
has committed and not yet enqueued, `deleting` the document `delete_document` will
delete once its job is queued, `stage` and `batch` a rebuild in progress.

`missed` is history: the rows that changed and that no job, request or rebuild will
read again. Each handler is modelled with what it enqueues *and* with the rows whose
documents it puts out of date without telling the index: the parts of a deleted,
merged or retargeted trip, an upload before its text is extracted, a document whose
links change. `RightUnlessMissed` says these are all: any other row is found as it
is, or something is on its way. A handler that forgot a job, or a step in the wrong
order, breaks it. `TripsMissedByAccident` says no handler ever leaves out a *trip*.

| Code | Actions |
|---|---|
| `create_trip`, `update_trip`, `delete_trip`, `merge_into`, `undo_merge` | the actions of these names |
| `create_segment`, `update_segment`, `delete_segment` | the actions of these names |
| `confirm` with a target, `discard` | `Retarget`, `Discard` |
| uploads, link, unlink, autolink, `delete_document` | `Upload`, `Relink`, `DeleteDocument` then `DocumentDeleted` |
| `_parse_raw_email`, `extract_document`, `purge_merged_trips` | `Parse`, `Extract`, `Purge` |
| `enqueue_meili_sync`, and a failure before the last of them | `Enqueue`, `Abandon` |
| `sync_meili`, its retries | `Take`, `Finish`, `Fail` |
| `reindex_all` | `Wipe`, `ReadRows`, `WriteIndex`, `RebuildFails` |
| the search route | `Found` |

Jobs have a fixed key. Whether saq drops a job while one of its key is unfinished is
the library's business (the comments in `search/sync.py` and `routes/map.py` warn
against counting on it); `Enqueue` allows both. Two queued jobs of one row read
the same row, so the queue is a set.

### Runs

`search` (passes): two trips, a segment, a document, two requests beside the worker
and a rebuild, two writes, one fault. Two writes reach a merge and its undo, a merge
and its purge, a deletion behind an upload, and a write in the middle of another's
jobs or of a rebuild; one fault is a lost enqueue, a failed job or a failed rebuild.
Deadlock is not checked: with the writes used up the system rests.

`missed` has the segments of a deleted trip: search goes on finding them. The
repository's README (lines 67-70) expects the query to filter them out because the
trip is gone; the filter is on `traveler_ids` stored in their own documents.

Fairness (`FairSpec`): weak fairness of each step of a request, a job or a rebuild
once begun, and of the worker's taking each queued row. None of a write or a fault.
Under it `CatchesUp` holds: an index that is not known to have missed a row agrees
with it again and again, hence for good once writing stops.

### Proofs (`SearchSyncProofs`)

`SearchTypes`, `SearchFollows` and `TripsAreSynced`, for all sets of rows and requests
and any number of writes and faults. The inductive invariant (`Inv`) says where a
row's copies are: unless the row is `Covered` - missed, queued, or owed by a request
that is not about to delete it - what a job has read of it, what a rebuild has read
of it and, unless one of these will overwrite it, what the index has of it all give
the answer the row gives now (`CopiesRight`). Every write goes through one lemma,
`CommitStep`: a handler that enqueues, or counts as missed, each row whose answer it
changes preserves the invariant. The rest is to show, handler by handler, that no
other answer changes; for merges it needs that a merged trip has no traveler
(`MergedHidden`), which is also why a rebuild may leave merged trips out.

## 7. TripMatching

Three sets of rules that say what belongs together, and the tables they read. The
worker compares drafts with segments (`Is`: a key, a ride or a night in common) and
leaves out what is `Known`; it files the rest in a trip of the same place and time
or in a new one (`Candidates`, `Attachable`, `Ambiguous`); the pages offer trips
near each other for a merge (`Offers`), unless the pair was dismissed. The state is
the rows of trips, travelers, segments and dismissals, and the parse in progress;
`made` and `corrected` are history: trips and segments as the worker left them.

| Code | Definitions |
|---|---|
| `_strong_match`, `_medium_transit_match`, `_medium_lodging_match`, `find_existing_segment` | `SameKey`, `SameRide`, `SameNight`, `Is`, `Known` |
| `cluster_for_user`, its helpers and score | `Candidates`, `Distance`, `Best`, `Attachable`, `Ambiguous` |
| `_parse_raw_email`: the gate, then one draft after the other | `Parse`; `FileNew`, `FileWith` |
| trips, segments, merges, undo and purge, with cascades | `CreateTrip`, `UpdateTrip`, `DeleteTrip`, `Purge`, `CreateSegment`, `UpdateSegment`, `DeleteSegment`, `MergeInto`, `UndoMerge` |
| `infer_home`, `from_trip`, `consolidation_candidates`, `_dismissed_pair_ids` | `Home`, `Views`, `Weight`, `Offers`, `DismissedWith` |
| the two pages, `dismiss_merge` | `OnPage`, `OnInbox`, `Dismiss` |

Abstractions. One user. Names and keys are equal or not. A request is one
transaction and none falls into a parse: `TripMerge` and `TripFiling` have those
that do, and the inbox's actions. A score `1 / (1 + distance)` is compared without
its division; at a margin of exactly a fifth floats may decide either way, so both
outcomes are allowed. Where a query has no order (the last of equal starts, the
most frequent city) any row may come first. The limits of 20 segments, 50 trips and
3 offers are not reached.

What reading the code for this module showed, and no property claims: a trip made
on the page of trips has no traveler, so clustering never finds it; forms count days
in UTC and the worker where the segment is, so the night of a hotel east or west
enough does not match its own email; two ends without a city compare equal
(`None == None`), so a trip that ends at a hotel and one that begins nowhere are
"a next leg" from one side only.

### Run

`matching` (passes): a user who lives in Rome flies to Oslo and back, a second
email with the flight half an hour later and without its number, a third with the
hotel and the flight cancelled; three trips and three segments, whose ids are used
again; six days; five parses or requests. Five reach a parse, a merge, its undo, a
second parse and a page in any order, and a trip made, dismissed and merged. Ids
are symmetric. `TypeOK` has the references; `NoTwins`: one booking, one segment,
whichever emails confirm it (what a form wrote apart, and two pairs the rules match
one way only); `AttachIsForced`: the order of rows decides nothing; `NoRivals`: the
worker does not split a stay; `FoundFromBothSides`; `DismissedStays`. Deadlock is
not checked: with five steps made the system rests. There is no fairness here.

### Proofs (`TripMatchingProofs`)

All six properties, for every set of rows, drafts and cities. `TypeOK` is inductive
by itself, in three parts that follow the tables. `NoTwins` needs `FreshApart`: what
a parse still has to file matches nothing another email brought - found when the
email was read, kept because pages wait for the parse and each draft is filed with
its own email's. `NoRivals` needs that a trip the worker made and nobody touched is
as its first draft made it and is open to be found (`MadeOK`): only then is an empty
list of candidates a fact about that trip. `AttachIsForced` is arithmetic:
two candidates cannot each be a fifth ahead of the other. `FoundFromBothSides` holds since
being the next leg is a shared city seen from the other side; `DismissedStays` since
nothing but the deletion of a trip removes a dismissal.

## 8. Money

What an expense is worth at home. `row` has the five columns: amount, currency,
frozen rate, the home currency it was frozen in and the amount in it. `home` is the
user's setting, `cache` the rates under today's keys, `session` what a request in
progress has loaded and computed. `origin` and `crossed` are history: the home
currency the form showed and the age of the rate; and the expenses saved by a
request that had loaded an older version of them.

| Code | Actions |
|---|---|
| `create_expense`, `update_expense` to their first wait | `Create`, `Edit` |
| `_maybe_create_expense` of a confirm | `Book` |
| `get_rate`: the cache, the service's answer, `FxError` | `Lookup`, `Answer`, `Unavailable` |
| the INSERT, the UPDATE | `Insert`, `Update` |
| `delete_expense`, `update_home_currency` | `Delete`, `UpdateHome` |
| the date in the cache's keys | `Midnight` |

`Recompute` is `recompute_home_minor`: minor units of two currencies, ROUND_HALF_UP;
`Freeze` is `freeze_fx`. An UPDATE writes the columns whose value is not the loaded
one (`Merged`), so two edits of one expense mix. This is the interesting case: edit
the currency in one tab and the amount in another, and the row has the rate of the
one and the amount of the other. The design (`docs/superpowers/specs/2026-05-01-
phase8-expenses-design.md`, 4.4) calls a row whose amount does not match its home
equivalent silent corruption. The model has it, and the properties say it is the
only way: they are about all expenses that are not `crossed`; without that
exception `AmountsMatch` is false.

Abstractions: one user; rates are whole numbers of `1 / Unit`; a request meets one
midnight at most (the time-outs of the service and of the database are seconds).
Totals are left out: a trip's page adds home amounts frozen in different home
currencies under the current one.

### Run

`money` (passes): two expenses, two requests at once, dollars with cents and yen
without, two tables of rates, one of which has no yen, two amounts, one of which is
rounded; six submits, deletions, changes of the setting and midnights. Six reach a
booking, two edits that cross, a change of the home currency during each, and a
midnight. Deadlock is not checked: with the turns used up the system rests.
`AmountsMatch` (to half a minor unit), `FrozenAsShown`, `RatesAreRecent`,
`RateStaysFrozen`, `TypeOK` (no row is written without a rate).

### Proofs (`MoneyProofs`)

All five, for any currencies, scales, rates, amounts, requests and turns. The
arithmetic is one lemma, `HalfUp`, on division with rounding, from which
`RecomputeIsNearest` and `FreezeMatches`. The invariant says what a request in
memory may hold (`Sound`): a draft that will match, or, for an edit, one computed
from the row it loaded, which matched; a row that is no longer the loaded one is
`crossed` when the request saves it. A midnight makes a request's answer one day
old, and marks the request, so that there is no second.

## 9. Mailbox

Whose email is it? No column says. The worker derives its owner from `to_address`
and the forwarding aliases when a job begins; the inbox derives its reader in the
same way at each request; administrators create, change and delete aliases
meanwhile; segments keep the owner they were filed with. `alias`, `status` and
`admin` are columns, `copies` counts the segments of an email that a user owns,
`job` is the job in progress, `visit` a sign-in between its count of users and its
commit. `granted`, `pioneers` and `touched` are history: who has had the group, who
was signing in when the first user was committed, and the emails whose alias
changed once a job had begun.

| Code | Actions |
|---|---|
| `callback`: the count, the INSERT | `Callback`, `Join` |
| `alias_create`, `alias_update`, `alias_delete` | `AliasCreate`, `AliasUpdate`, `AliasDelete` |
| the two webhooks | `Deliver` |
| `_parse_raw_email`: the owner, the comparison, the commit; its failure | `Begin`, `Compare`, `Commit`, `Fail` |
| `confirm`, `reparse`, `not_a_duplicate`, `reask` | `Decide` |
| `discard`, `delete_segment` | `Discard`, `DeleteSegment` |

Abstractions: a booking is a segment or it is not; what a confirm does to trips,
documents and expenses is in `TripFiling`, the queue in `EmailPipeline`. The
exchange with the identity provider and the cookie are left out. Segments entered
by hand are left out. An address is its local part, in some spelling; `Lower` is
what Python's `lower` and the database's make of it.

Two things follow from deriving the owner, and no document says they should not be:
a new holder of an alias, and any administrator, may discard an email whose
segments belong to the former holder, and they go; and an email parsed again after
its alias was handed over is filed for the new holder beside the old one's segment.
`OneCopyEach` is therefore per owner.

### Run

`mailbox` (passes): three people, two aliases, three spellings of two local parts,
two emails about one booking, one of them sent to the other spelling; three changes
of aliases. Three people are two sign-ins at once and one who is not an
administrator beside a holder; three changes create both aliases and hand one over.
People and aliases are symmetric. `LaterUsersNeedTheGroup` (administrators have the
group, or were signing in when the first user was committed: users are counted
before the INSERT, so several may be first), `NeverLost` (an email to an unknown
or deleted alias is in some inbox), `OneMailbox`, `OneCopyEach`, `FiledForReader`,
`TypeOK`. Deadlock is not checked, and nothing here has to happen.

### Proofs (`MailboxProofs`)

All six, for every set of people, aliases, emails and spellings. The invariant has
three parts that do not need each other: `SignIns` (whoever has not joined yet was
counted when there was nobody, or is a pioneer; so as long as there is no user all
who sign in will be administrators), `Holders` (local parts are unique, and the alias
of an untouched email leads to the owner of its segments and of its job) and
`Copies` (what the job found to be new still is when it commits). The last is
where concurrency 1 of the worker is used.

## 10. Model-checked only, and not modelled

Liveness (`MergesAreResolved`, `EmailsAreAnswered`, `CatchesUp`) is checked by TLC
on the instances above and not proved: liveness under fairness is out of the
prover's reach. Everything else the passing runs check is proved as well.

Not modelled, and why, is in the components of `PROJECT.json`; in short: text
extraction and the LLM (strings in, drafts out: their outcome is a parameter or a
choice), the exchange with the identity provider, replay nonces (a replay is
logged and changes nothing: Message-ID decides), the calendar feed, maps, weather
and rendering (they read only), configuration and logging. Merges that collide
over a source (a cycle, a doubled submit) are in `TripMerge`, outside `Apart`, but
nothing in the repository says what they should do, so no run judges them. Two users
share no trip in these models: nothing in the program makes a second traveler.
