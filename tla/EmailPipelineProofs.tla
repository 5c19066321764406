------------------------ MODULE EmailPipelineProofs ------------------------
(* Theorems about EmailPipeline, for every set of emails, bookings and        *)
(* documents, every budget and every number of retries and faults.            *)
EXTENDS EmailPipeline, FiniteSetTheorems, TLAPS

\* What the job in progress remembers is still so: nobody else inserts
\* segments, and rows of documents are not taken back.
JobInv ==
    /\ worker.pc = "matched" => \A b \in worker.fresh : ~Booked(b)
    /\ worker.pc = "committed" => \A d \in worker.new : docs[d] # "absent"

Inv == /\ TypeOK /\ JobInv
       /\ NoDoubleBooking /\ SpendWithinCap /\ ExtractsFindRows

LEMMA RunFields ==
  ASSUME worker \in Run \cup {Idle}
  PROVE  /\ worker # Idle => worker.job \in Job /\ worker.new \in SUBSET Doc
         /\ worker.pc # "idle" => worker # Idle
         /\ worker.pc = "parsed" => worker.drafts \in SUBSET Booking
                                    /\ worker.sure \in BOOLEAN
         /\ worker.pc = "matched" => /\ worker.fresh \in SUBSET Booking
                                     /\ worker.known \in SUBSET Booking
                                     /\ worker.sure \in BOOLEAN
  BY DEF Run, Idle

LEMMA JobFields == \A j \in Job : j.msg \in Message /\ j.tries \in 1 .. Retries
  BY DEF Job

LEMMA NewJob == \A m \in Message : [msg |-> m, tries |-> Retries] \in Job
  BY BoundAssumption DEF Job

LEMMA InvInit == Init => Inv
  BY BoundAssumption
  DEF Init, Inv, TypeOK, JobInv, NoDoubleBooking, SpendWithinCap, ExtractsFindRows,
      Idle, Answered

\* Steps of requests and of the queue leave the job, the documents and the
\* budget alone and insert no segment.
LEMMA Bystander ==
  ASSUME Inv, TypeOK', segs' \subseteq segs,
         UNCHANGED <<docs, spent, extracts>>, worker' \in {worker, Idle}
  PROVE  Inv'
<1>1. NoDoubleBooking' /\ SpendWithinCap' /\ ExtractsFindRows'
  BY DEF Inv, NoDoubleBooking, SpendWithinCap, ExtractsFindRows
<1>2. JobInv'
  BY DEF Inv, JobInv, Booked, Idle
<1>. QED
  BY <1>1, <1>2 DEF Inv

LEMMA EnqueueType ==
  ASSUME TypeOK, NEW m \in Message, EnqueueParse(m)
  PROVE  jobs' \in [Job -> Nat] /\ faults' \in 0 .. MaxFaults
  BY NewJob, BoundAssumption DEF EnqueueParse, Fault, TypeOK

LEMMA TakeType ==
  ASSUME TypeOK, NEW j \in Job, Take(j)
  PROVE  jobs' \in [Job -> Nat]
  BY DEF Take, TypeOK

LEMMA InsertType ==
  ASSUME TypeOK, NEW D \in SUBSET Doc
  PROVE  /\ Insert(D) \in [Doc -> {"absent", "pending", "extracted"}]
         /\ \A d \in Doc : docs[d] # "absent" \/ d \in D => Insert(D)[d] # "absent"
  BY DEF TypeOK, Insert

LEMMA RequestStep ==
  ASSUME Inv, NEW m \in Message, Deliver(m) \/ User(m)
  PROVE  Inv'
<1>. USE DEF Inv
<1>1. CASE Deliver(m)
  <2>1. TypeOK'
    BY <1>1, EnqueueType DEF Deliver, TypeOK
  <2>. QED
    BY <1>1, <2>1, Bystander DEF Deliver
<1>2. ASSUME NEW override \in BOOLEAN, Requeue(m, override)  PROVE Inv'
  <2>1. TypeOK'
    BY <1>2, EnqueueType DEF Requeue, TypeOK
  <2>. QED
    BY <1>2, <2>1, Bystander DEF Requeue
<1>3. CASE Discard(m)
  <2>1. TypeOK' /\ segs' \subseteq segs
    BY <1>3 DEF Discard, TypeOK, Answered
  <2>. QED
    BY <1>3, <2>1, Bystander DEF Discard
<1>4. CASE Confirm(m)
  <2>1. TypeOK'
    BY <1>4 DEF Confirm, TypeOK, Answered
  <2>. QED
    BY <1>4, <2>1, Bystander DEF Confirm
<1>. QED
  BY <1>1, <1>2, <1>3, <1>4 DEF User, Reparse, NotADuplicate

LEMMA StartStep ==
  ASSUME Inv, NEW m \in Message, Start(m)
  PROVE  Inv'
<1>. USE DEF Inv
<1>1. ASSUME NEW j \in Job, SkipJob(j)  PROVE Inv'
  <2>1. TypeOK'
    BY <1>1, TakeType DEF SkipJob, TypeOK
  <2>. QED
    BY <1>1, <2>1, Bystander DEF SkipJob
<1>2. ASSUME NEW j \in Job, NoAlias(j)  PROVE Inv'
  <2>1. TypeOK'
    BY <1>2, TakeType DEF NoAlias, TypeOK, Answered
  <2>. QED
    BY <1>2, <2>1, Bystander DEF NoAlias
<1>3. ASSUME NEW j \in Job, Begin(j)  PROVE Inv'
  <2>1. j.msg \in Message /\ Attachments[j.msg] \in SUBSET Doc
    BY JobFields, MessageAssumption
  <2>2. worker' \in Run /\ worker'.pc = "begun"
    BY <1>3, <2>1 DEF Begin, Run
  <2>3. TypeOK'
    BY <1>3, <2>2, TakeType DEF Begin, TypeOK
  <2>. QED
    BY <1>3, <2>2, <2>3
    DEF Begin, JobInv, NoDoubleBooking, SpendWithinCap, ExtractsFindRows
<1>. QED
  BY <1>1, <1>2, <1>3 DEF Start

LEMMA ParsedType ==
  ASSUME TypeOK, worker.pc = "begun", NEW D \in SUBSET Booking, NEW s \in BOOLEAN,
         Parsed(D, s)
  PROVE  worker' \in Run /\ worker'.pc = "parsed"
<1>1. worker.job \in Job /\ worker.new \in SUBSET Doc
  BY RunFields DEF TypeOK
<1>. QED
  BY <1>1 DEF Parsed, Run

LEMMA WorkStep ==
  ASSUME Inv, Work
  PROVE  Inv'
<1>. USE DEF Inv
<1>0. worker \in Run \cup {Idle}
  BY DEF TypeOK
<1>1. CASE DispatchRules
  <2>. DEFINE m == worker.job.msg
  <2>1. m \in Message /\ Drafts[m] \in SUBSET Booking
    BY <1>0, <1>1, RunFields, JobFields, MessageAssumption DEF DispatchRules
  <2>2. worker' \in Run /\ worker'.pc = "parsed"
    <3>1. CASE Parsed(Drafts[m], TRUE)
      BY <1>1, <2>1, <3>1, ParsedType DEF DispatchRules
    <3>2. ASSUME NEW sure \in BOOLEAN, Parsed(Drafts[m], sure)
          PROVE  worker' \in Run /\ worker'.pc = "parsed"
      BY <1>1, <2>1, <3>2, ParsedType DEF DispatchRules
    <3>3. CASE Parsed({}, FALSE)
      BY <1>1, <3>3, ParsedType DEF DispatchRules
    <3>. QED
      BY <1>1, <3>1, <3>2, <3>3 DEF DispatchRules
  <2>. QED
    BY <1>1, <2>2
    DEF DispatchRules, TypeOK, JobInv, NoDoubleBooking, SpendWithinCap, ExtractsFindRows
<1>2. ASSUME NEW cost \in 1 .. MaxCost, DispatchLlm(cost)  PROVE Inv'
  <2>. DEFINE m == worker.job.msg
  <2>1. m \in Message /\ Drafts[m] \in SUBSET Booking /\ worker.new \in SUBSET Doc
    BY <1>0, <1>2, RunFields, JobFields, MessageAssumption DEF DispatchLlm, LlmReads
  <2>2. worker' \in Run /\ worker'.pc = "parsed"
    <3>1. CASE Parsed({}, FALSE)
      BY <1>2, <3>1, ParsedType DEF DispatchLlm, LlmReads
    <3>2. ASSUME NEW sure \in BOOLEAN, Parsed(Drafts[m], sure)
          PROVE  worker' \in Run /\ worker'.pc = "parsed"
      BY <1>2, <2>1, <3>2, ParsedType DEF DispatchLlm, LlmReads
    <3>. QED
      BY <1>2, <3>1, <3>2 DEF DispatchLlm, LlmReads
  <2>3. spent' \in Nat /\ spent' < Cap + MaxCost
    BY <1>2, BoundAssumption DEF DispatchLlm, LlmReads, OverBudget, TypeOK
  <2>4. /\ docs' \in [Doc -> {"absent", "pending", "extracted"}]
        /\ \A d \in Doc : docs[d] # "absent" => docs'[d] # "absent"
    BY <1>2, <2>1, InsertType DEF DispatchLlm, LlmReads
  <2>5. TypeOK'
    BY <1>2, <2>2, <2>3, <2>4 DEF DispatchLlm, LlmReads, TypeOK
  <2>. QED
    BY <1>2, <2>2, <2>3, <2>4, <2>5
    DEF DispatchLlm, LlmReads, JobInv, NoDoubleBooking, SpendWithinCap, ExtractsFindRows
<1>3. CASE Match
  <2>1. worker.job \in Job /\ worker.new \in SUBSET Doc /\ worker.drafts \in SUBSET Booking
        /\ worker.sure \in BOOLEAN
    BY <1>0, <1>3, RunFields DEF Match
  <2>2. worker' \in Run /\ worker'.pc = "matched"
        /\ \A b \in worker'.fresh : ~Booked(b)
    BY <1>3, <2>1 DEF Match, Run, Known
  <2>3. TypeOK'
    BY <1>3, <2>2 DEF Match, TypeOK
  <2>. QED
    BY <1>3, <2>2, <2>3
    DEF Match, JobInv, Booked, NoDoubleBooking, SpendWithinCap, ExtractsFindRows
<1>4. CASE CommitParse
  <2>. DEFINE m == worker.job.msg
  <2>1. /\ m \in Message /\ worker.job \in Job /\ worker.new \in SUBSET Doc
        /\ worker.fresh \in SUBSET Booking
    BY <1>0, <1>4, RunFields, JobFields DEF CommitParse
  <2>2. Verdict(worker) \in Answered
    BY DEF Verdict, Answered
  <2>3. /\ docs' \in [Doc -> {"absent", "pending", "extracted"}]
        /\ \A d \in Doc : docs[d] # "absent" \/ d \in worker.new => docs'[d] # "absent"
    BY <1>4, <2>1, InsertType DEF CommitParse
  <2>4. worker' \in Run /\ worker'.pc = "committed" /\ worker'.new = worker.new
    BY <1>4, <2>1 DEF CommitParse, Run
  <2>5. TypeOK'
    BY <1>4, <2>1, <2>2, <2>3, <2>4 DEF CommitParse, TypeOK
  <2>6. NoDoubleBooking'
    <3>1. \A b \in worker.fresh : ~Booked(b)
      BY <1>4 DEF CommitParse, JobInv
    <3>2. \A b, n : <<b, n>> \in segs' => <<b, n>> \in segs \/ (b \in worker.fresh /\ n = m)
      BY <1>4 DEF CommitParse
    <3>. QED
      BY <3>1, <3>2 DEF NoDoubleBooking, Booked
  <2>7. JobInv' /\ ExtractsFindRows' /\ SpendWithinCap'
    BY <1>4, <2>1, <2>3, <2>4 DEF CommitParse, JobInv, ExtractsFindRows, SpendWithinCap
  <2>. QED
    BY <2>5, <2>6, <2>7
<1>5. CASE EnqueueExtracts
  <2>1. extracts' \in [Doc -> Nat] /\ faults' \in 0 .. MaxFaults
    BY <1>5, BoundAssumption DEF EnqueueExtracts, Fault, TypeOK
  <2>2. TypeOK'
    BY <1>5, <2>1 DEF EnqueueExtracts, TypeOK
  <2>3. ExtractsFindRows'
    BY <1>5 DEF EnqueueExtracts, JobInv, ExtractsFindRows, TypeOK
  <2>. QED
    BY <1>5, <2>2, <2>3
    DEF EnqueueExtracts, Idle, JobInv, NoDoubleBooking, SpendWithinCap
<1>6. CASE FailJob
  <2>1. worker.job \in Job
    BY <1>0, <1>6, RunFields DEF FailJob
  <2>2. worker.job.tries # 1 => [worker.job EXCEPT !.tries = @ - 1] \in Job
    BY <2>1, BoundAssumption DEF Job
  <2>3. jobs' \in [Job -> Nat] /\ faults' \in 0 .. MaxFaults
    BY <1>6, <2>2, BoundAssumption DEF FailJob, Fault, TypeOK
  <2>4. TypeOK'
    BY <1>6, <2>3 DEF FailJob, TypeOK
  <2>. QED
    BY <1>6, <2>4, Bystander DEF FailJob
<1>. QED
  BY <1>1, <1>2, <1>3, <1>4, <1>5, <1>6 DEF Work

LEMMA InvStep == Inv /\ [Next]_vars => Inv'
<1>. SUFFICES ASSUME Inv, [Next]_vars PROVE Inv'
  OBVIOUS
<1>. USE DEF Inv
<1>1. ASSUME NEW m \in Message, Deliver(m) \/ User(m) \/ Start(m)  PROVE Inv'
  BY <1>1, RequestStep, StartStep
<1>2. ASSUME NEW s \in segs, DeleteSegment(s)  PROVE Inv'
  <2>1. TypeOK' /\ segs' \subseteq segs
    BY <1>2 DEF DeleteSegment, TypeOK
  <2>. QED
    BY <1>2, <2>1, Bystander DEF DeleteSegment
<1>3. CASE ParsePending
  <2>1. jobs' \in [Job -> Nat]
    BY <1>3 DEF ParsePending, TypeOK
  <2>2. TypeOK'
    BY <1>3, <2>1 DEF ParsePending, TypeOK
  <2>. QED
    BY <1>3, <2>2, Bystander DEF ParsePending
<1>4. ASSUME NEW d \in Doc, Extract(d)  PROVE Inv'
  <2>1. /\ extracts' \in [Doc -> Nat] /\ faults' \in 0 .. MaxFaults
        /\ \A e \in Doc : extracts'[e] > 0 => extracts[e] > 0
        /\ docs' \in [Doc -> {"absent", "pending", "extracted"}]
        /\ \A e \in Doc : docs[e] # "absent" => docs'[e] # "absent"
    BY <1>4, BoundAssumption DEF Extract, Fault, TypeOK
  <2>2. TypeOK'
    BY <1>4, <2>1 DEF Extract, TypeOK
  <2>. QED
    BY <1>4, <2>1, <2>2
    DEF Extract, Idle, JobInv, NoDoubleBooking, SpendWithinCap, ExtractsFindRows
<1>5. CASE NewDay
  <2>1. TypeOK'
    BY <1>5 DEF NewDay, TypeOK
  <2>. QED
    BY <1>5, <2>1
    DEF NewDay, JobInv, Booked, NoDoubleBooking, SpendWithinCap, ExtractsFindRows
<1>6. CASE Work
  BY <1>6, WorkStep
<1>7. CASE UNCHANGED vars
  BY <1>7 DEF vars, TypeOK, JobInv, Booked, NoDoubleBooking, SpendWithinCap,
              ExtractsFindRows
<1>. QED
  BY <1>1, <1>2, <1>3, <1>4, <1>5, <1>6, <1>7 DEF Next

LEMMA Always == Spec => []Inv
  BY InvInit, InvStep, PTL DEF Spec

\* Every email keeps one of the statuses the code gives it, segments and documents
\* stay rows of the model, and the worker runs at most one job, however it fails.
THEOREM PipelineTypes == Spec => []TypeOK
<1>1. Inv => TypeOK
  BY DEF Inv
<1>. QED
  BY <1>1, Always, PTL

\* Two emails never have a segment each for one booking, whatever is delivered
\* again, retried, parsed again, discarded or deleted.
THEOREM BookedOnce == Spec => []NoDoubleBooking
<1>1. Inv => NoDoubleBooking
  BY DEF Inv
<1>. QED
  BY <1>1, Always, PTL

\* The recorded spend of a day stays below the cap plus one call, for every cap
\* and every price.
THEOREM CapHolds == Spec => []SpendWithinCap
<1>1. Inv => SpendWithinCap
  BY DEF Inv
<1>. QED
  BY <1>1, Always, PTL

\* An extraction job always finds its document, though jobs fail at any point.
THEOREM RowsBeforeJobs == Spec => []ExtractsFindRows
<1>1. Inv => ExtractsFindRows
  BY DEF Inv
<1>. QED
  BY <1>1, Always, PTL

-----------------------------------------------------------------------------
(* Emails nobody will parse until parse_pending is run *)

\* The set of them is finite even where Message is not, so that it has a size.
StrandedInv == IsFiniteSet(Stranded) /\ EachFailureStrandsOne

Serving == {"begun", "parsed", "matched"}

\* An email stays served while its jobs stay in the queue and the worker keeps
\* the one it is at.
LEMMA StaysServed ==
  ASSUME NEW m \in Message, Served(m),
         \A n \in 1 .. Retries : jobs[[msg |-> m, tries |-> n]] > 0
                                   => jobs'[[msg |-> m, tries |-> n]] > 0,
         worker.pc \in Serving /\ worker.job.msg = m
           => worker'.pc \in Serving /\ worker'.job.msg = m
  PROVE  Served(m)'
  BY DEF Served, Serving

\* A step strands no email, or fails and strands one.
LEMMA NoneStranded ==
  ASSUME Inv, StrandedInv, TypeOK', faults' >= faults,
         \A m \in Message : m \in Stranded' => m \in Stranded
  PROVE  StrandedInv'
<1>1. Stranded' \in SUBSET Stranded
  BY DEF Stranded, Unanswered
<1>2. /\ IsFiniteSet(Stranded') /\ Cardinality(Stranded') <= Cardinality(Stranded)
      /\ Cardinality(Stranded') \in Nat /\ Cardinality(Stranded) \in Nat
  BY <1>1, FS_Subset, FS_CardinalityType DEF StrandedInv
<1>3. faults \in Nat /\ faults' \in Nat
  BY BoundAssumption DEF Inv, TypeOK
<1>. QED
  BY <1>2, <1>3 DEF StrandedInv, EachFailureStrandsOne

LEMMA OneStranded ==
  ASSUME Inv, StrandedInv, TypeOK', faults' = faults + 1, NEW m \in Message,
         \A n \in Message : n \in Stranded' => n \in Stranded \/ n = m
  PROVE  StrandedInv'
<1>. DEFINE S == Stranded \cup {m}
<1>1. Stranded' \in SUBSET S
  BY DEF Stranded, Unanswered
<1>2. IsFiniteSet(Stranded) /\ Cardinality(Stranded) \in Nat
  BY FS_CardinalityType DEF StrandedInv
<1>3. IsFiniteSet(S) /\ Cardinality(S) <= Cardinality(Stranded) + 1
  BY <1>2, FS_AddElement
<1>4. /\ IsFiniteSet(Stranded') /\ Cardinality(Stranded') <= Cardinality(S)
      /\ Cardinality(Stranded') \in Nat /\ Cardinality(S) \in Nat
  <2>. HIDE DEF S
  <2>. QED
    BY <1>1, <1>3, FS_Subset, FS_CardinalityType
<1>5. faults \in Nat
  BY BoundAssumption DEF Inv, TypeOK
<1>. QED
  BY <1>2, <1>3, <1>4, <1>5 DEF StrandedInv, EachFailureStrandsOne

\* An email that is sent to the parser is served, unless the enqueueing fails;
\* the others are as they were.
LEMMA EnqueueStrands ==
  ASSUME Inv, StrandedInv, TypeOK', NEW m \in Message, EnqueueParse(m),
         \A n \in Message \ {m} : status'[n] = status[n],
         UNCHANGED worker
  PROVE  StrandedInv'
<1>. DEFINE j == [msg |-> m, tries |-> Retries]
<1>1. \A n \in Message \ {m} : n \in Stranded' => n \in Stranded
  <2>. SUFFICES ASSUME NEW n \in Message \ {m}, n \in Unanswered, Served(n)
                PROVE  Served(n)'
    BY DEF Stranded, Unanswered
  <2>1. \A k \in 1 .. Retries : jobs'[[msg |-> n, tries |-> k]] = jobs[[msg |-> n, tries |-> k]]
    BY DEF EnqueueParse, Inv, TypeOK, Job
  <2>. QED
    BY <2>1, StaysServed
<1>2. CASE jobs' = [jobs EXCEPT ![j] = @ + 1] /\ UNCHANGED faults
  <2>1. j \in Job /\ Retries \in 1 .. Retries
    BY NewJob, BoundAssumption
  <2>2. jobs'[j] > 0
    BY <1>2, <2>1 DEF Inv, TypeOK
  <2>3. Served(m)'
    BY <2>1, <2>2 DEF Served
  <2>4. faults' >= faults
    BY <1>2, BoundAssumption DEF Inv, TypeOK
  <2>. QED
    BY <1>1, <2>3, <2>4, NoneStranded DEF Stranded
<1>3. CASE Fault
  BY <1>1, <1>3, OneStranded DEF Fault
<1>. QED
  BY <1>2, <1>3 DEF EnqueueParse

\* A step that enqueues or leaves the queue alone, in which the worker goes on
\* with its job and no email becomes pending, strands none.
LEMMA QuietStrands ==
  ASSUME Inv, StrandedInv, TypeOK', faults' >= faults,
         \A n \in Message : status'[n] = "pending" => status[n] = "pending",
         \A j \in Job : jobs[j] > 0 => jobs'[j] > 0,
         \A n \in Message : status'[n] = "pending"
           /\ worker.pc \in Serving /\ worker.job.msg = n
           => worker'.pc \in Serving /\ worker'.job.msg = n
  PROVE  StrandedInv'
<1>. SUFFICES ASSUME NEW n \in Message, n \in Unanswered, n \in Unanswered', Served(n)
              PROVE  Served(n)'
  BY NoneStranded DEF Stranded, Unanswered
<1>1. \A k \in 1 .. Retries : [msg |-> n, tries |-> k] \in Job
  BY DEF Job
<1>. QED
  BY <1>1, StaysServed DEF Unanswered

\* A job leaves the queue for the worker, or because its email was answered.
LEMMA TakeStrands ==
  ASSUME Inv, StrandedInv, TypeOK', NEW j \in Job, worker = Idle, Take(j),
         UNCHANGED faults,
         \A n \in Message : status'[n] = "pending" => status[n] = "pending",
         status'[j.msg] = "pending" => worker'.pc \in Serving /\ worker'.job = j
  PROVE  StrandedInv'
<1>1. faults' >= faults
  BY BoundAssumption DEF Inv, TypeOK
<1>. SUFFICES ASSUME NEW n \in Message, n \in Unanswered', Served(n)
              PROVE  Served(n)'
  BY <1>1, NoneStranded DEF Stranded, Unanswered
<1>2. CASE n = j.msg
  BY <1>2 DEF Unanswered, Served, Serving
<1>3. CASE n # j.msg
  <2>1. \A k \in 1 .. Retries :
            [msg |-> n, tries |-> k] \in Job /\ [msg |-> n, tries |-> k] # j
    BY <1>3 DEF Job
  <2>2. \A k \in 1 .. Retries : jobs'[[msg |-> n, tries |-> k]] = jobs[[msg |-> n, tries |-> k]]
    BY <2>1 DEF Take, Inv, TypeOK
  <2>. QED
    BY <2>2, StaysServed DEF Idle, Serving
<1>. QED
  BY <1>2, <1>3

LEMMA FailStrands ==
  ASSUME Inv, StrandedInv, TypeOK', FailJob
  PROVE  StrandedInv'
<1>. DEFINE j == worker.job
            r == [j EXCEPT !.tries = @ - 1]
<1>1. j \in Job /\ j.msg \in Message /\ j.tries \in 1 .. Retries
  BY RunFields, JobFields DEF FailJob, Inv, TypeOK
<1>2. j.tries # 1 => r \in Job
  BY <1>1, BoundAssumption DEF Job
<1>3. \A k \in Job : jobs[k] > 0 => jobs'[k] > 0
  BY <1>2 DEF FailJob, Inv, TypeOK
<1>4. \A n \in Message : n \in Stranded' => n \in Stranded \/ n = j.msg
  <2>. SUFFICES ASSUME NEW n \in Message, n # j.msg, n \in Unanswered, Served(n)
                PROVE  Served(n)'
    BY DEF Stranded, Unanswered, FailJob
  <2>1. \A k \in 1 .. Retries : [msg |-> n, tries |-> k] \in Job
    BY DEF Job
  <2>. QED
    BY <1>3, <2>1, StaysServed
<1>. QED
  BY <1>1, <1>4, OneStranded DEF FailJob, Fault

LEMMA StrandedStep == Inv /\ Inv' /\ StrandedInv /\ [Next]_vars => StrandedInv'
<1>. SUFFICES ASSUME Inv, Inv', StrandedInv, [Next]_vars
              PROVE  StrandedInv'
  OBVIOUS
<1>. USE DEF Inv
<1>0. faults \in Nat /\ (faults' = faults \/ faults' = faults + 1 => faults' >= faults)
  BY BoundAssumption DEF TypeOK
<1>1. ASSUME NEW m \in Message, Deliver(m)  PROVE StrandedInv'
  BY <1>1, EnqueueStrands DEF Deliver, TypeOK
<1>2. ASSUME NEW m \in Message, NEW override \in BOOLEAN, Requeue(m, override)
      PROVE  StrandedInv'
  BY <1>2, EnqueueStrands DEF Requeue, TypeOK
<1>3. ASSUME NEW m \in Message, Discard(m) \/ Confirm(m)  PROVE StrandedInv'
  BY <1>0, <1>3, QuietStrands DEF Discard, Confirm, TypeOK
<1>4. ASSUME NEW m \in Message, NEW j \in Job, SkipJob(j) \/ NoAlias(j) \/ Begin(j)
      PROVE  StrandedInv'
  <2>1. j.msg \in Message
    BY JobFields
  <2>2. CASE SkipJob(j)
    BY <2>1, <2>2, TakeStrands DEF SkipJob
  <2>3. CASE NoAlias(j)
    BY <2>1, <2>3, TakeStrands DEF NoAlias, TypeOK
  <2>4. CASE Begin(j)
    BY <2>1, <2>4, TakeStrands DEF Begin, Serving
  <2>. QED
    BY <1>4, <2>2, <2>3, <2>4
<1>5. ASSUME NEW s \in segs, DeleteSegment(s)  PROVE StrandedInv'
  BY <1>0, <1>5, QuietStrands DEF DeleteSegment
<1>6. CASE ParsePending
  <2>1. \A j \in Job : jobs[j] > 0 => jobs'[j] > 0
    BY <1>6 DEF ParsePending, TypeOK
  <2>. QED
    BY <1>0, <1>6, <2>1, QuietStrands DEF ParsePending
<1>7. ASSUME NEW d \in Doc, Extract(d)  PROVE StrandedInv'
  BY <1>0, <1>7, QuietStrands DEF Extract, Fault
<1>8. CASE NewDay
  BY <1>0, <1>8, QuietStrands DEF NewDay
<1>9. CASE DispatchRules
  <2>1. worker'.pc = "parsed" /\ worker'.job = worker.job
    BY <1>9 DEF DispatchRules, Parsed
  <2>. QED
    BY <1>0, <1>9, <2>1, QuietStrands DEF DispatchRules, Serving
<1>10. ASSUME NEW cost \in 1 .. MaxCost, DispatchLlm(cost)  PROVE StrandedInv'
  <2>1. worker'.pc = "parsed" /\ worker'.job = worker.job
    BY <1>10 DEF DispatchLlm, LlmReads, Parsed
  <2>. QED
    BY <1>0, <1>10, <2>1, QuietStrands DEF DispatchLlm, LlmReads, Serving
<1>11. CASE Match
  <2>1. worker'.pc = "matched" /\ worker'.job = worker.job
    BY <1>11 DEF Match
  <2>. QED
    BY <1>0, <1>11, <2>1, QuietStrands DEF Match, Serving
<1>12. CASE CommitParse
  <2>1. Verdict(worker) # "pending"
    BY DEF Verdict
  <2>2. \A n \in Message : status'[n] = "pending"
                            => status[n] = "pending" /\ n # worker.job.msg
    BY <1>12, <2>1 DEF CommitParse, TypeOK
  <2>3. faults' >= faults /\ jobs' = jobs
    BY <1>0, <1>12 DEF CommitParse
  <2>. QED
    BY <2>2, <2>3, QuietStrands
<1>13. CASE EnqueueExtracts
  BY <1>0, <1>13, QuietStrands DEF EnqueueExtracts, Fault, Serving
<1>14. CASE FailJob
  BY <1>14, FailStrands
<1>15. CASE UNCHANGED vars
  BY <1>0, <1>15, QuietStrands DEF vars
<1>. QED
  BY <1>1, <1>2, <1>3, <1>4, <1>5, <1>6, <1>7, <1>8, <1>9, <1>10, <1>11, <1>12, <1>13,
     <1>14, <1>15
  DEF Next, User, Reparse, NotADuplicate, Start, Work

LEMMA StrandedInit == Init => StrandedInv
<1>. SUFFICES ASSUME Init PROVE StrandedInv
  OBVIOUS
<1>1. Stranded = {}
  BY DEF Init, Stranded, Unanswered
<1>. QED
  BY <1>1, FS_EmptySet DEF Init, StrandedInv, EachFailureStrandsOne

\* However many emails arrive and however often they are sent through the parser
\* again, those that wait for parse_pending are at most as many as the failures of
\* Redis and of jobs: without one, every pending email has a job.
THEOREM StrandedByFailures == Spec => []EachFailureStrandsOne
<1>1. StrandedInv => EachFailureStrandsOne
  BY DEF StrandedInv
<1>. QED
  BY <1>1, Always, StrandedInit, StrandedStep, PTL DEF Spec
=============================================================================
