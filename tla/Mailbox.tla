------------------------------- MODULE Mailbox -------------------------------
(* Whose email is it? No row says so: the worker and the inbox derive it, each *)
(* time, from the address the email was sent to and the forwarding aliases,    *)
(* which administrators create, change and delete meanwhile. What the worker   *)
(* files belongs to the holder it found. Users come to be at their first       *)
(* sign-in, several at once.                                                   *)
(*                                                                             *)
(* A booking is a segment or it is not: trips, and the rest of what a confirm  *)
(* does, are in TripFiling; queue, retries and budget in EmailPipeline.        *)
EXTENDS Naturals, FiniteSets

CONSTANTS User, Alias, Email,
          Spelling,    \* local parts as people write them
          Lower,       \* [Spelling -> Spelling]
          To,          \* [Email -> Spelling]: the local part of to_address
          Booking,     \* what emails are about, as dedup compares it
          About,       \* [Email -> Booking]
          MaxEdits,    \* a bound: changes of aliases
          None

Visit == [first : BOOLEAN, group : BOOLEAN]
Row   == [local : Spelling, holder : User]
Job   == [email : Email, owner : User, read : {"not yet", "nothing", "known", "new"}]

ASSUME MailboxAssumption ==
    /\ Lower \in [Spelling -> Spelling] /\ \A n \in Spelling : Lower[Lower[n]] = Lower[n]
    /\ To \in [Email -> Spelling] /\ About \in [Email -> Booking]
    /\ MaxEdits \in Nat
    /\ None \notin BOOLEAN \cup Visit \cup Row \cup Job

VARIABLES
    visit,      \* a sign-in between its count of users and its commit
    admin,      \* users.is_admin, None without a user
    granted,    \* history: users whose token has carried the group
    pioneers,   \* history: who was signing in when the first user was committed
    alias,      \* the forwarding aliases, None without a row
    status,     \* raw_emails.parse_status, None before the delivery
    job,        \* the worker's job: one at a time
    copies,     \* how many segments of an email a user owns
    touched,    \* history: emails whose alias changed after their first job began
    edits

accounts == <<visit, admin, granted, pioneers>>
mail     == <<status, job, copies>>
vars     == <<accounts, mail, alias, touched, edits>>

Users  == {u \in User : admin[u] # None}
Admins == {u \in Users : admin[u]}

Init ==
    /\ visit = [u \in User |-> None]
    /\ admin = [u \in User |-> None]
    /\ granted = {} /\ pioneers = {}
    /\ alias = [i \in Alias |-> None]
    /\ status = [e \in Email |-> None]
    /\ job = None
    /\ copies = [e \in Email |-> [u \in User |-> 0]]
    /\ touched = {}
    /\ edits = 0

-----------------------------------------------------------------------------
(* Sign-in.                                                                   *)

\* Mutant: off by one.
CountsTwo == Cardinality(Users) <= 1
CountsNone == Users = {}

\* callback, up to the count; a user who is there is updated.
Callback(u, group) ==
    /\ visit[u] = None
    /\ granted' = IF group THEN granted \cup {u} ELSE granted
    /\ IF u \in Users
       THEN /\ admin' = [admin EXCEPT ![u] = @ \/ group]
            /\ UNCHANGED visit
       ELSE /\ visit' = [visit EXCEPT ![u] = [first |-> CountsNone, group |-> group]]
            /\ UNCHANGED admin
    /\ UNCHANGED <<pioneers, alias, mail, touched, edits>>

\* Mutant: the first user is one among others.
GroupOnly(v) == v.group
IsAdmin(v) == v.first \/ v.group

\* callback: the INSERT.
Join(u) ==
    /\ visit[u] # None
    /\ admin' = [admin EXCEPT ![u] = IsAdmin(visit[u])]
    /\ visit' = [visit EXCEPT ![u] = None]
    /\ pioneers' = IF Users = {} THEN {v \in User : visit[v] # None} ELSE pioneers
    /\ UNCHANGED <<granted, alias, mail, touched, edits>>

-----------------------------------------------------------------------------
(* Aliases.                                                                   *)

Aliases == {i \in Alias : alias[i] # None}

\* Who a local part leads to.
HoldersOf(n) == {alias[i].holder : i \in {j \in Aliases : alias[j].local = n}}

\* Mutant: no unique constraint.
Anything(i, n) == n \in Spelling
\* uq_forwarding_aliases_local_part.
Free(i, n) == \A j \in Aliases \ {i} : alias[j].local # n

Touch(names) ==
    touched' = touched \cup
        {e \in Email : /\ Lower[To[e]] \in names
                       /\ (job # None /\ job.email = e) \/ \E u \in User : copies[e][u] > 0}

Edit ==
    /\ edits < MaxEdits /\ edits' = edits + 1
    /\ Admins # {}
    /\ UNCHANGED <<accounts, mail>>

\* Mutant: stored as typed.
AsTyped(n) == n
\* What the form's local part is stored as.
Normalized(n) == Lower[n]

\* alias_create.
AliasCreate(i, n, u) ==
    /\ Edit
    /\ i \notin Aliases /\ u \in Users /\ Free(i, Normalized(n))
    /\ alias' = [alias EXCEPT ![i] = [local |-> Normalized(n), holder |-> u]]
    /\ Touch({Normalized(n)})

\* alias_update: a new holder, another local part or both.
AliasUpdate(i, n, u) ==
    /\ Edit
    /\ i \in Aliases /\ u \in Users /\ Free(i, Normalized(n))
    /\ alias' = [alias EXCEPT ![i] = [local |-> Normalized(n), holder |-> u]]
    /\ Touch({alias[i].local, Normalized(n)})

\* alias_delete. The emails stay.
AliasDelete(i) ==
    /\ Edit
    /\ i \in Aliases
    /\ alias' = [alias EXCEPT ![i] = None]
    /\ Touch({alias[i].local})

-----------------------------------------------------------------------------
(* Delivery and parse.                                                        *)

\* ingest_email, ingest_forwardemail: stored whether the alias is known or not.
Deliver(e) ==
    /\ status[e] = None
    /\ status' = [status EXCEPT ![e] = "pending"]
    /\ UNCHANGED <<accounts, alias, job, copies, touched, edits>>

\* _parse_raw_email up to the owner, who stays the owner of this job.
Begin(e) ==
    /\ job = None /\ status[e] = "pending"
    /\ LET holders == HoldersOf(Lower[To[e]])
       IN  \/ /\ holders = {}
              /\ status' = [status EXCEPT ![e] = "no_segments"]
              /\ UNCHANGED job
           \/ /\ \E u \in holders :
                    job' = [email |-> e, owner |-> u, read |-> "not yet"]
              /\ UNCHANGED status
    /\ UNCHANGED <<accounts, alias, copies, touched, edits>>

\* Mutant: compared with the segments of this email alone.
KnownHere(e, u) == copies[e][u] > 0
\* find_existing_segment: the owner's segments, whichever email they came with.
Known(e, u) == \E f \in Email : About[f] = About[e] /\ copies[f][u] > 0

\* What the parsers read, compared with the segments there are. A later parse may
\* read what an earlier one did not, for a provider or the day's budget.
Compare ==
    /\ job # None /\ job.read = "not yet"
    /\ \E read \in {"nothing", IF Known(job.email, job.owner) THEN "known" ELSE "new"} :
         job' = [job EXCEPT !.read = read]
    /\ UNCHANGED <<accounts, alias, status, copies, touched, edits>>

Verdicts ==
    [nothing |-> {"no_segments"}, known |-> {"duplicate"}, new |-> {"parsed", "review"}]

\* The verdict, and the segment with it.
Commit(verdict) ==
    /\ job # None /\ job.read # "not yet"
    /\ verdict \in Verdicts[job.read]
    /\ status' = [status EXCEPT ![job.email] = verdict]
    /\ copies' = IF job.read = "new" THEN [copies EXCEPT ![job.email][job.owner] = @ + 1]
                                    ELSE copies
    /\ job' = None
    /\ UNCHANGED <<accounts, alias, touched, edits>>

\* The job fails or the worker dies; the email is pending and comes again.
Fail ==
    /\ job # None
    /\ job' = None
    /\ UNCHANGED <<accounts, alias, status, copies, touched, edits>>

-----------------------------------------------------------------------------
(* The inbox.                                                                 *)

\* Mutant: the local part compared as it was written.
OwnsAsWritten(u, e) == admin[u] \/ u \in HoldersOf(To[e])
\* _user_owned_filter: administrators are shown every email.
Owns(u, e) == admin[u] \/ u \in HoldersOf(Lower[To[e]])

\* confirm, reparse (so not_a_duplicate and reask).
Decide(u, e, verdict) ==
    /\ u \in Users /\ status[e] # None /\ Owns(u, e)
    /\ status' = [status EXCEPT ![e] = verdict]
    /\ UNCHANGED <<accounts, alias, job, copies, touched, edits>>

\* discard: the segments of the email go, whoever owns them.
Discard(u, e) ==
    /\ u \in Users /\ status[e] # None /\ Owns(u, e)
    /\ status' = [status EXCEPT ![e] = "no_segments"]
    /\ copies' = [copies EXCEPT ![e] = [v \in User |-> 0]]
    /\ UNCHANGED <<accounts, alias, job, touched, edits>>

\* delete_segment.
DeleteSegment(e, u) ==
    /\ copies[e][u] > 0
    /\ copies' = [copies EXCEPT ![e][u] = @ - 1]
    /\ UNCHANGED <<accounts, alias, status, job, touched, edits>>

Worker ==
    \/ \E e \in Email : Begin(e)
    \/ Compare
    \/ \E verdict \in {"parsed", "review", "duplicate", "no_segments"} : Commit(verdict)
    \/ Fail

Administrator ==
    \/ \E i \in Alias, n \in Spelling, u \in User : AliasCreate(i, n, u) \/ AliasUpdate(i, n, u)
    \/ \E i \in Alias : AliasDelete(i)

Person(u) ==
    \/ \E group \in BOOLEAN : Callback(u, group)
    \/ Join(u)
    \/ \E e \in Email :
         \/ \E verdict \in {"parsed", "pending"} : Decide(u, e, verdict)
         \/ Discard(u, e)
         \/ DeleteSegment(e, u)

Next ==
    \/ \E u \in User : Person(u)
    \/ \E e \in Email : Deliver(e)
    \/ Worker
    \/ Administrator

Spec == Init /\ [][Next]_vars

-----------------------------------------------------------------------------
(* Properties.                                                                *)

\* Aliases lead to users, jobs to emails and users; what is stored is
\* lower-cased: callback, alias_create, _parse_raw_email.
TypeOK ==
    /\ visit \in [User -> Visit \cup {None}]
    /\ admin \in [User -> BOOLEAN \cup {None}]
    /\ granted \subseteq User /\ pioneers \subseteq User
    /\ alias \in [Alias -> Row \cup {None}]
    /\ \A i \in Aliases : alias[i].holder \in Users /\ Lower[alias[i].local] = alias[i].local
    /\ status \in [Email -> {None, "pending", "parsed", "review", "duplicate", "no_segments"}]
    /\ job \in Job \cup {None}
    /\ copies \in [Email -> [User -> Nat]]
    /\ touched \subseteq Email /\ edits \in 0 .. MaxEdits

\* Users come after the first by sign-in alone, so administrators are those with
\* the group and the first user: and whoever was signing in at the same time,
\* since users are counted before the new one is committed (callback).
LaterUsersNeedTheGroup == \A u \in Admins : u \in granted \/ u \in pioneers

\* An email that waits for a decision is in somebody's inbox, as soon as there is
\* a user: its alias may never have been there, be deleted or lead to someone
\* else, and it is not lost (the worker's no_segments, _user_owned_filter).
NeverLost ==
    \A e \in Email : status[e] \in {"review", "duplicate", "no_segments"} /\ Users # {} =>
        \E u \in Users : Owns(u, e)

\* No two users, administrators apart, have one email in their inboxes, however
\* aliases are created, renamed and handed over (ForwardingAlias.local_part).
OneMailbox ==
    \A e \in Email : \A u, v \in Users \ Admins : Owns(u, e) /\ Owns(v, e) => u = v

\* Nobody owns a booking twice: emails parsed again, discarded while their job
\* runs, sent to two aliases of one user, or handed from one user to another and
\* back leave one segment for each of them (find_existing_segment, the owner a
\* job keeps).
OneCopyEach ==
    \A u \in User, e \in Email, f \in Email :
        copies[e][u] > 0 /\ copies[f][u] > 0 /\ About[e] = About[f] => e = f /\ copies[e][u] = 1

\* The worker files a booking for whom the inbox shows its email to, the one by
\* Python's lower and the other by the database's, unless the alias has changed
\* since the job began (_parse_raw_email, _user_owned_filter).
FiledForReader ==
    \A e \in Email \ touched, u \in User : copies[e][u] > 0 => u \in Users /\ Owns(u, e)
=============================================================================
