--------------------------- MODULE EmailPipeline ---------------------------
(* A forwarded confirmation from its delivery to its segments: the ingest     *)
(* webhooks, the saq queue, the worker's parse_raw_email and extract_document *)
(* and the inbox actions that send an email through the parser again.         *)
(*                                                                            *)
(* The worker runs one job at a time (settings["concurrency"]) but its job    *)
(* awaits the database, the LLM and Redis, so the requests of the web process *)
(* interleave with it; worker is what the job holds in memory between those   *)
(* awaits.  A job may fail or be killed at any of them, which rolls back what *)
(* it has not committed, and is retried by saq a bounded number of times.     *)
(* Enqueueing is best effort: a Redis failure is logged and swallowed.        *)
(*                                                                            *)
(* A booking is what one segment describes; the parser finds the same booking *)
(* in every email that confirms it and dedup recognises it.                   *)
EXTENDS Integers, FiniteSets

CONSTANTS
    Message,     \* Message-IDs of confirmation emails
    Booking,     \* flights, stays and transfers they confirm
    Doc,         \* PDF files, by content
    Drafts,      \* the bookings in each email
    Attachments, \* the PDFs attached to each email
    Rules,       \* how well JSON-LD and the vendor rules read each email
    Retries,     \* attempts saq makes at a job (retries=5)
    Cap,         \* LLM_DAILY_BUDGET_CENTS
    MaxCost,     \* bound: the dearest LLM call
    MaxCopies,   \* bound: equal jobs in the queue at a time
    MaxFaults    \* bound: failures of Redis and of jobs

ASSUME MessageAssumption ==
    /\ Drafts \in [Message -> SUBSET Booking]
    /\ Attachments \in [Message -> SUBSET Doc]
    /\ Rules \in [Message -> {"none", "weak", "strong"}]
ASSUME BoundAssumption ==
    /\ Retries \in Nat \ {0} /\ MaxCopies \in Nat \ {0}
    /\ Cap \in Nat /\ MaxCost \in Nat /\ MaxFaults \in Nat

VARIABLES
    status,     \* parse_status of each raw_emails row, "absent" without a row
    overridden, \* emails waiting for a parse because they were called not a
                \* duplicate (history, for NotADuplicateSticks)
    segs,       \* segments, as <<booking, email it was parsed from>>
    docs,       \* extract_status of each document, "absent" without a row
    spent,      \* llm_budget.cost_cents of today
    jobs,       \* parse_raw_email jobs in the queue
    extracts,   \* extract_document jobs in the queue
    worker,     \* the parse job in progress
    faults      \* failures so far

vars == <<status, overridden, segs, docs, spent, jobs, extracts, worker, faults>>

Job == [msg : Message, tries : 1 .. Retries]

Idle == [pc |-> "idle"]
\* new is the documents the job inserted and will send to extraction; sure says
\* whether the confidence reaches LLM_CONFIDENCE_FLOOR; fresh and known split
\* the drafts.
Run == [pc : {"begun"}, job : Job, new : SUBSET Doc]
       \cup [pc : {"parsed"}, job : Job, new : SUBSET Doc, drafts : SUBSET Booking,
             sure : BOOLEAN]
       \cup [pc : {"matched"}, job : Job, new : SUBSET Doc, fresh : SUBSET Booking,
             known : SUBSET Booking, sure : BOOLEAN]
       \cup [pc : {"committed"}, job : Job, new : SUBSET Doc]

Answered == {"parsed", "review", "no_segments", "duplicate"}
Booked(b) == \E m \in Message : <<b, m>> \in segs

\* Mutant: the documents' insert is never committed.
InsertNothing(D) == docs

\* The inserted documents become visible with the job's first commit.
Insert(D) == [d \in Doc |-> IF d \in D /\ docs[d] = "absent" THEN "pending" ELSE docs[d]]

Init ==
    /\ status = [m \in Message |-> "absent"]
    /\ overridden = {}
    /\ segs = {}
    /\ docs = [d \in Doc |-> "absent"]
    /\ spent = 0
    /\ jobs = [j \in Job |-> 0]
    /\ extracts = [d \in Doc |-> 0]
    /\ worker = Idle
    /\ faults = 0

-----------------------------------------------------------------------------
Fault == faults < MaxFaults /\ faults' = faults + 1

\* Mutant: the jobs of an email share a key, and one whose key is in progress is
\* dropped.
EnqueueParseKeyed(m) ==
    LET j == [msg |-> m, tries |-> Retries] IN
    \/ /\ worker # Idle /\ worker.job.msg = m
       /\ UNCHANGED <<jobs, faults>>
    \/ /\ worker # Idle => worker.job.msg # m
       /\ jobs[j] < MaxCopies
       /\ jobs' = [jobs EXCEPT ![j] = @ + 1]
       /\ UNCHANGED faults
    \/ Fault /\ UNCHANGED jobs

\* enqueue_parse: a new job, or a warning in the log.
EnqueueParse(m) ==
    LET j == [msg |-> m, tries |-> Retries] IN
    \/ /\ jobs[j] < MaxCopies
       /\ jobs' = [jobs EXCEPT ![j] = @ + 1]
       /\ UNCHANGED faults
    \/ Fault /\ UNCHANGED jobs

\* POST /api/ingest/email and /forwardemail.  A Message-ID that has a row is
\* accepted again without effect.
Deliver(m) ==
    /\ status[m] = "absent"
    /\ status' = [status EXCEPT ![m] = "pending"]
    /\ EnqueueParse(m)
    /\ UNCHANGED <<overridden, segs, docs, spent, extracts, worker>>

\* Mutant: parse_pending looks for a status no handler sets.
UnansweredFailed == {m \in Message : status[m] = "failed"}

Unanswered == {m \in Message : status[m] = "pending"}

\* python -m trip_tracker parse_pending
ParsePending ==
    LET lost == {[msg |-> m, tries |-> Retries] : m \in Unanswered} IN
    /\ \E j \in lost : jobs[j] < MaxCopies
    /\ jobs' = [j \in Job |-> IF j \in lost /\ jobs[j] < MaxCopies
                              THEN jobs[j] + 1 ELSE jobs[j]]
    /\ UNCHANGED <<status, overridden, segs, docs, spent, extracts, worker, faults>>

\* POST /inbox/{m}/reparse, /reask and /not-a-duplicate
Requeue(m, override) ==
    /\ status[m] # "absent"
    /\ status' = [status EXCEPT ![m] = "pending"]
    /\ overridden' = IF override THEN overridden \cup {m} ELSE overridden \ {m}
    /\ EnqueueParse(m)
    /\ UNCHANGED <<segs, docs, spent, extracts, worker>>

Reparse(m)       == Requeue(m, FALSE)
NotADuplicate(m) == Requeue(m, status[m] = "duplicate")

\* POST /inbox/{m}/discard
Discard(m) ==
    /\ status[m] # "absent"
    /\ status' = [status EXCEPT ![m] = "no_segments"]
    /\ segs' = {s \in segs : s[2] # m}
    /\ overridden' = overridden \ {m}
    /\ UNCHANGED <<docs, spent, jobs, extracts, worker, faults>>

\* POST /inbox/{m}/confirm, as far as the email is concerned
Confirm(m) ==
    /\ status[m] # "absent"
    /\ status' = [status EXCEPT ![m] = "parsed"]
    /\ overridden' = overridden \ {m}
    /\ UNCHANGED <<segs, docs, spent, jobs, extracts, worker, faults>>

\* A segment deleted from its trip's page.
DeleteSegment(s) ==
    /\ s \in segs
    /\ segs' = segs \ {s}
    /\ UNCHANGED <<status, overridden, docs, spent, jobs, extracts, worker, faults>>

-----------------------------------------------------------------------------
\* Mutant: a job is acknowledged without being in the queue.
TakeUnchecked(j) == jobs' = [jobs EXCEPT ![j] = @ - 1]

Take(j) == jobs[j] > 0 /\ jobs' = [jobs EXCEPT ![j] = @ - 1]

\* A job whose email was answered already does nothing.
SkipJob(j) ==
    /\ worker = Idle /\ Take(j)
    /\ status[j.msg] # "pending"
    /\ UNCHANGED <<status, overridden, segs, docs, spent, extracts, worker, faults>>

\* No forwarding alias matches the recipient.
NoAlias(j) ==
    /\ worker = Idle /\ Take(j)
    /\ status[j.msg] = "pending"
    /\ status' = [status EXCEPT ![j.msg] = "no_segments"]
    /\ overridden' = overridden \ {j.msg}
    /\ UNCHANGED <<segs, docs, spent, extracts, worker, faults>>

\* The email is pending and has an owner: its PDFs are upserted, and those that
\* were inserted are remembered.
Begin(j) ==
    /\ worker = Idle /\ Take(j)
    /\ status[j.msg] = "pending"
    /\ worker' = [pc |-> "begun", job |-> j,
                  new |-> {d \in Attachments[j.msg] : docs[d] = "absent"}]
    /\ UNCHANGED <<status, overridden, segs, docs, spent, extracts, faults>>

Parsed(drafts, sure) ==
    worker' = [pc |-> "parsed", job |-> worker.job, new |-> worker.new,
               drafts |-> drafts, sure |-> sure]

\* dispatch_parse without the LLM's result: the rules read the email, or the
\* best they found has to do (budget exhausted, call failed or no better).
DispatchRules ==
    LET m == worker.job.msg IN
    /\ worker.pc = "begun"
    /\ \/ Rules[m] = "strong" /\ Parsed(Drafts[m], TRUE)
       \/ Rules[m] = "weak" /\ \E sure \in BOOLEAN : Parsed(Drafts[m], sure)
       \/ Rules[m] = "none" /\ Parsed({}, FALSE)
    /\ UNCHANGED <<status, overridden, segs, docs, spent, jobs, extracts, faults>>

\* Mutant: the cap itself is still within budget.
OverBudgetLate == spent > Cap

\* is_over_budget
OverBudget == spent >= Cap

\* parse_with_llm: no segments, or those of the email, by its confidence (at most
\* 0.85) above the floor or not.
LlmReads(m) == Parsed({}, FALSE) \/ \E sure \in BOOLEAN : Parsed(Drafts[m], sure)

\* The LLM's result is the best: record_usage commits its cost, and with it the
\* documents inserted so far.
DispatchLlm(cost) ==
    LET m == worker.job.msg IN
    /\ worker.pc = "begun"
    /\ Rules[m] # "strong" /\ ~OverBudget
    /\ spent' = spent + cost
    /\ docs' = Insert(worker.new)
    /\ LlmReads(m)
    /\ UNCHANGED <<status, overridden, segs, jobs, extracts, faults>>

\* Mutant: dedup looks at segments of confirmed emails only.
KnownConfirmed(b) == \E m \in Message : <<b, m>> \in segs /\ status[m] = "parsed"

\* find_existing_segment
Known(b) == Booked(b)

\* The dedup queries, one per draft.
Match ==
    /\ worker.pc = "parsed"
    /\ worker' = [pc |-> "matched", job |-> worker.job, new |-> worker.new,
                  fresh |-> {b \in worker.drafts : ~Known(b)},
                  known |-> {b \in worker.drafts : Known(b)}, sure |-> worker.sure]
    /\ UNCHANGED <<status, overridden, segs, docs, spent, jobs, extracts, faults>>

Verdict(r) == IF r.fresh \cup r.known = {} THEN "no_segments"
              ELSE IF r.fresh = {} THEN "duplicate"
              ELSE IF r.known # {} \/ ~r.sure THEN "review" ELSE "parsed"

\* Segments, status and documents in one transaction.  The status is written
\* whatever it has become meanwhile.
CommitParse ==
    LET m == worker.job.msg IN
    /\ worker.pc = "matched"
    /\ status' = [status EXCEPT ![m] = Verdict(worker)]
    /\ segs' = segs \cup {<<b, m>> : b \in worker.fresh}
    /\ docs' = Insert(worker.new)
    /\ worker' = [pc |-> "committed", job |-> worker.job, new |-> worker.new]
    /\ overridden' = overridden \ {m}
    /\ UNCHANGED <<spent, jobs, extracts, faults>>

\* _enqueue_doc_extracts: every document in new, in one try block.
EnqueueExtracts ==
    /\ worker.pc = "committed"
    /\ worker' = Idle
    /\ \/ /\ extracts' = [d \in Doc |-> IF d \in worker.new
                                        THEN extracts[d] + 1 ELSE extracts[d]]
          /\ UNCHANGED faults
       \/ Fault /\ UNCHANGED extracts
    /\ UNCHANGED <<status, overridden, segs, docs, spent, jobs>>

\* An exception, a timeout or the death of the worker: what is not committed is
\* rolled back and the job goes back to the queue while attempts remain.
FailJob ==
    LET j == worker.job IN
    /\ worker # Idle
    /\ Fault
    /\ worker' = Idle
    /\ jobs' = IF j.tries = 1 THEN jobs
               ELSE [jobs EXCEPT ![[j EXCEPT !.tries = @ - 1]] = @ + 1]
    /\ UNCHANGED <<status, overridden, segs, docs, spent, extracts>>

\* extract_document: once, without retries.
Extract(d) ==
    /\ worker = Idle
    /\ extracts[d] > 0
    /\ extracts' = [extracts EXCEPT ![d] = @ - 1]
    /\ \/ docs[d] = "pending" /\ docs' = [docs EXCEPT ![d] = "extracted"]
          /\ UNCHANGED faults
       \/ docs[d] # "pending" /\ UNCHANGED <<docs, faults>>
       \/ Fault /\ UNCHANGED docs
    /\ UNCHANGED <<status, overridden, segs, spent, jobs, worker>>

NewDay ==
    /\ spent > 0 /\ spent' = 0
    /\ UNCHANGED <<status, overridden, segs, docs, jobs, extracts, worker, faults>>

Start(m) == \E j \in Job : j.msg = m /\ (SkipJob(j) \/ NoAlias(j) \/ Begin(j))

Work == \/ DispatchRules \/ (\E cost \in 1 .. MaxCost : DispatchLlm(cost))
        \/ Match \/ CommitParse \/ EnqueueExtracts \/ FailJob

User(m) == Reparse(m) \/ NotADuplicate(m) \/ Discard(m) \/ Confirm(m)

Next ==
    \/ \E m \in Message : Deliver(m) \/ User(m) \/ Start(m)
    \/ \E s \in segs : DeleteSegment(s)
    \/ ParsePending
    \/ Work
    \/ \E d \in Doc : Extract(d)
    \/ NewDay

Spec == Init /\ [][Next]_vars

\* The worker keeps running and takes each email's jobs in turn; an operator
\* keeps running parse_pending; failures do not go on for ever (MaxFaults).
FairSpec == /\ Spec
            /\ WF_vars(Work) /\ WF_vars(ParsePending)
            /\ \A m \in Message : SF_vars(Start(m))
-----------------------------------------------------------------------------
(* Properties *)

TypeOK ==
    /\ status \in [Message -> Answered \cup {"absent", "pending"}]
    /\ overridden \subseteq Message
    /\ segs \subseteq Booking \X Message
    /\ docs \in [Doc -> {"absent", "pending", "extracted"}]
    /\ spent \in Nat
    /\ jobs \in [Job -> Nat] /\ extracts \in [Doc -> Nat]
    /\ worker \in Run \cup {Idle}
    /\ faults \in 0 .. MaxFaults

\* However often a booking is confirmed by email, forwarded again, retried or
\* parsed again, at most one email has a segment for it: no other job runs
\* between the dedup queries and the commit.
NoDoubleBooking ==
    \A b \in Booking, m, n \in Message :
        <<b, m>> \in segs /\ <<b, n>> \in segs => m = n

\* The recorded spend of a day overshoots the cap by less than one call: the
\* budget is checked before each call and no other call runs meanwhile.
SpendWithinCap == spent = 0 \/ spent < Cap + MaxCost

\* extract_document is never queued for a row that is not committed yet.
ExtractsFindRows == \A d \in Doc : extracts[d] > 0 => docs[d] # "absent"

\* A job of the email is queued, or in progress and has its verdict to write.
Served(m) ==
    \/ \E n \in 1 .. Retries : jobs[[msg |-> m, tries |-> n]] > 0
    \/ worker.pc \in {"begun", "parsed", "matched"} /\ worker.job.msg = m

Stranded == {m \in Unanswered : ~Served(m)}

\* A failure of Redis or of a job strands at most one email, and nothing else
\* strands any, whatever a user sends through the parser again while a job runs:
\* parse_pending is needed after failures only.
EachFailureStrandsOne == Cardinality(Stranded) <= faults

\* Every email is answered in the end, though its enqueue was lost, its job
\* failed or ran out of attempts: parse_pending finds it again.
EmailsAreAnswered ==
    \A m \in Message : status[m] = "pending" ~> status[m] \in Answered

\* An email the user called not a duplicate is not called one by the parse that
\* follows.
NotADuplicateSticks ==
    [][\A m \in overridden : CommitParse /\ worker.job.msg = m
                                   => status'[m] # "duplicate"]_vars

\* A parse whose enqueueing succeeds leaves none of the email's documents
\* pending without an extraction job.
RerunRetriesDocs ==
    [][EnqueueExtracts /\ faults' = faults =>
          \A d \in Attachments[worker.job.msg] :
              docs[d] = "pending" => extracts'[d] > 0]_vars
=============================================================================
