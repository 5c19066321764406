---------------------------- MODULE MailboxProofs ----------------------------
(* Whose email it is, for every set of users, aliases, emails and spellings.  *)
EXTENDS Mailbox, TLAPS

USE MailboxAssumption

-----------------------------------------------------------------------------
(* The inductive invariant, in three parts that do not need each other.       *)

\* Who has not joined yet was counted when nobody had, or while the first did.
SignIns ==
    /\ LaterUsersNeedTheGroup
    /\ Users # {} => Admins # {}
    /\ \A u \in User : visit[u] # None =>
         /\ u \notin Users
         /\ visit[u].group => u \in granted
         /\ visit[u].first => Users = {} \/ u \in pioneers
         /\ Users = {} => visit[u].first

\* Local parts are unique, and an untouched alias leads to who owns the bookings.
Holders ==
    /\ \A i, j \in Aliases : alias[i].local = alias[j].local => i = j
    /\ \A e \in Email \ touched, u \in User : copies[e][u] > 0 => u \in HoldersOf(Lower[To[e]])
    /\ job # None /\ job.email \notin touched => job.owner \in HoldersOf(Lower[To[job.email]])

\* What a job has found to be new still is when it commits.
Copies ==
    /\ OneCopyEach
    /\ job # None /\ job.read = "new" => ~Known(job.email, job.owner)

Inv == TypeOK /\ SignIns /\ Holders /\ Copies

LEMMA InvInit == Init => Inv
<1> SUFFICES ASSUME Init PROVE Inv OBVIOUS
<1>1. Users = {} /\ Aliases = {} BY DEF Init, Users, Aliases
<1>2. TypeOK BY <1>1 DEF Init, TypeOK
<1>3. SignIns BY <1>1 DEF Init, SignIns, LaterUsersNeedTheGroup, Admins
<1>4. Holders BY <1>1 DEF Init, Holders
<1>5. Copies BY DEF Init, Copies, OneCopyEach
<1> QED BY <1>2, <1>3, <1>4, <1>5 DEF Inv

-----------------------------------------------------------------------------
(* What a step leaves alone it preserves.                                     *)

LEMMA SignInsKept == SignIns /\ UNCHANGED accounts => SignIns'
BY DEF SignIns, accounts, LaterUsersNeedTheGroup, Users, Admins

LEMMA HoldersKept == Holders /\ UNCHANGED <<alias, touched, job, copies>> => Holders'
BY DEF Holders, HoldersOf, Aliases

LEMMA CopiesKept == Copies /\ UNCHANGED <<job, copies>> => Copies'
BY DEF Copies, OneCopyEach, Known

-----------------------------------------------------------------------------
(* Sign-in.                                                                   *)

LEMMA CallbackStep ==
    ASSUME Inv, NEW u \in User, NEW group \in BOOLEAN, Callback(u, group)
    PROVE  Inv'
<1>1. visit[u] = None /\ UNCHANGED <<pioneers, alias, status, job, copies, touched, edits>>
      /\ granted' = IF group THEN granted \cup {u} ELSE granted
  BY DEF Callback, mail
<1>2. Holders' /\ Copies' BY <1>1, HoldersKept, CopiesKept DEF Inv
<1>3. CASE u \in Users
  <2>1. admin' = [admin EXCEPT ![u] = @ \/ group] /\ visit' = visit BY <1>3 DEF Callback
  <2>2. admin[u] \in BOOLEAN BY <1>3 DEF Users, Inv, TypeOK
  <2>3. admin' \in [User -> BOOLEAN \cup {None}] /\ \A v \in User \ {u} : admin'[v] = admin[v]
    BY <2>1, <2>2 DEF Inv, TypeOK
  <2>4. admin'[u] = (admin[u] \/ group) /\ admin'[u] \in BOOLEAN BY <2>1, <2>2 DEF Inv, TypeOK
  <2>5. Users' = Users BY <1>3, <2>3, <2>4 DEF Users
  <2>6. Admins \subseteq Admins' /\ Admins' \subseteq Admins \cup (IF group THEN {u} ELSE {})
    BY <2>3, <2>4, <2>5 DEF Admins, Users
  <2>7. TypeOK' BY <1>1, <2>1, <2>3, <2>5 DEF Inv, TypeOK, Aliases
  <2>8. SignIns' BY <1>1, <2>1, <2>5, <2>6 DEF Inv, SignIns, LaterUsersNeedTheGroup
  <2> QED BY <1>2, <2>7, <2>8 DEF Inv
<1>4. CASE u \notin Users
  <2> DEFINE v == [first |-> CountsNone, group |-> group]
  <2>1. visit' = [visit EXCEPT ![u] = v] /\ admin' = admin BY <1>4 DEF Callback
  <2>2. v \in Visit /\ (v.group <=> group) /\ (v.first <=> Users = {}) BY DEF Visit, CountsNone
  <2> HIDE DEF v
  <2>3. visit' \in [User -> Visit \cup {None}] /\ visit'[u] = v
        /\ \A w \in User \ {u} : visit'[w] = visit[w]
    BY <2>1, <2>2 DEF Inv, TypeOK
  <2>4. Users' = Users /\ Admins' = Admins BY <2>1 DEF Users, Admins
  <2>5. TypeOK' BY <1>1, <2>1, <2>3, <2>4 DEF Inv, TypeOK, Aliases
  <2>6. ASSUME NEW w \in User, visit'[w] # None
        PROVE  /\ w \notin Users'
               /\ visit'[w].group => w \in granted'
               /\ visit'[w].first => Users' = {} \/ w \in pioneers'
               /\ Users' = {} => visit'[w].first
    <3>1. CASE w = u BY <1>1, <1>4, <2>2, <2>3, <2>4, <3>1
    <3>2. CASE w # u BY <1>1, <2>3, <2>4, <2>6, <3>2 DEF Inv, SignIns
    <3> QED BY <3>1, <3>2
  <2>7. LaterUsersNeedTheGroup' /\ (Users' # {} => Admins' # {})
    BY <1>1, <2>4 DEF Inv, SignIns, LaterUsersNeedTheGroup
  <2>8. SignIns' BY <2>6, <2>7 DEF SignIns
  <2> QED BY <1>2, <2>5, <2>8 DEF Inv
<1> QED BY <1>3, <1>4

LEMMA JoinStep ==
    ASSUME Inv, NEW u \in User, Join(u)
    PROVE  Inv'
<1>1. /\ visit[u] # None /\ admin' = [admin EXCEPT ![u] = IsAdmin(visit[u])]
      /\ visit' = [visit EXCEPT ![u] = None]
      /\ pioneers' = IF Users = {} THEN {v \in User : visit[v] # None} ELSE pioneers
      /\ UNCHANGED <<granted, alias, status, job, copies, touched, edits>>
  BY DEF Join, mail
<1>2. visit[u] \in Visit BY <1>1 DEF Inv, TypeOK
<1>3. IsAdmin(visit[u]) \in BOOLEAN /\ IsAdmin(visit[u]) # None BY <1>2 DEF IsAdmin, Visit
<1>4. admin' \in [User -> BOOLEAN \cup {None}] /\ admin'[u] = IsAdmin(visit[u])
      /\ \A v \in User \ {u} : admin'[v] = admin[v]
  BY <1>1, <1>3 DEF Inv, TypeOK
<1>5. visit' \in [User -> Visit \cup {None}] /\ visit'[u] = None
      /\ \A v \in User \ {u} : visit'[v] = visit[v]
  BY <1>1 DEF Inv, TypeOK
<1>6. Users' = Users \cup {u} BY <1>3, <1>4 DEF Users
<1>7. Admins' = Admins \cup (IF IsAdmin(visit[u]) THEN {u} ELSE {})
  <2>1. u \notin Users BY <1>1 DEF Inv, SignIns
  <2> QED BY <1>3, <1>4, <1>6, <2>1 DEF Admins, Users
<1>8. TypeOK'
  <2>1. pioneers' \subseteq User BY <1>1 DEF Inv, TypeOK
  <2> QED BY <1>1, <1>4, <1>5, <1>6, <2>1 DEF Inv, TypeOK, Aliases
<1>9. SignIns'
  <2>1. pioneers \subseteq pioneers' \/ Users = {} BY <1>1
  <2>2. u \in Admins' => u \in granted \/ u \in pioneers'
    BY <1>1, <1>2, <1>7 DEF Inv, SignIns, IsAdmin, Admins
  <2>3. LaterUsersNeedTheGroup'
    BY <1>1, <1>7, <2>1, <2>2 DEF Inv, SignIns, LaterUsersNeedTheGroup, Admins
  <2>4. Admins' # {}
    <3>1. CASE Users = {} BY <1>1, <1>7, <3>1 DEF Inv, SignIns, IsAdmin
    <3>2. CASE Users # {} BY <1>7, <3>2 DEF Inv, SignIns
    <3> QED BY <3>1, <3>2
  <2>5. ASSUME NEW v \in User, visit'[v] # None
        PROVE  /\ v \notin Users' /\ (visit'[v].group => v \in granted')
               /\ v \in pioneers' \/ ~visit'[v].first
    BY <1>1, <1>5, <1>6, <2>5 DEF Inv, SignIns
  <2> QED BY <1>6, <2>3, <2>4, <2>5 DEF SignIns
<1> QED BY <1>1, <1>8, <1>9, HoldersKept, CopiesKept DEF Inv

-----------------------------------------------------------------------------
(* Aliases.                                                                   *)

\* A row written or deleted changes who its old and its new local part lead to,
\* and nobody else.
LEMMA AliasChange ==
    ASSUME Inv, NEW i \in Alias, NEW r \in Row \cup {None}, alias' = [alias EXCEPT ![i] = r],
           r # None => r.holder \in Users /\ Lower[r.local] = r.local /\ Free(i, r.local),
           NEW names, i \in Aliases => alias[i].local \in names, r # None => r.local \in names,
           Touch(names), edits' \in 0 .. MaxEdits, UNCHANGED <<accounts, mail>>
    PROVE  Inv'
<1>1. alias' \in [Alias -> Row \cup {None}] /\ alias'[i] = r
      /\ \A j \in Alias \ {i} : alias'[j] = alias[j]
  BY DEF Inv, TypeOK
<1>2. Aliases' = IF r = None THEN Aliases \ {i} ELSE Aliases \cup {i} BY <1>1 DEF Aliases
<1>3. Users' = Users /\ UNCHANGED <<visit, admin, granted, pioneers, status, job, copies>>
  BY DEF Users, accounts, mail
<1>4. TypeOK'
  <2>1. touched' \subseteq Email BY DEF Touch, Inv, TypeOK
  <2>2. \A j \in Aliases' : alias'[j].holder \in Users' /\ Lower[alias'[j].local] = alias'[j].local
    BY <1>1, <1>2, <1>3 DEF Inv, TypeOK, Aliases
  <2> QED BY <1>1, <1>3, <2>1, <2>2 DEF Inv, TypeOK
<1>5. \A j, k \in Aliases' : alias'[j].local = alias'[k].local => j = k
  BY <1>1, <1>2 DEF Inv, Holders, Free, Aliases
<1>6. ASSUME NEW n, n \notin names PROVE HoldersOf(n) \subseteq HoldersOf(n)'
  <2> SUFFICES ASSUME NEW h \in HoldersOf(n) PROVE h \in HoldersOf(n)' OBVIOUS
  <2>1. PICK j \in Aliases : alias[j].local = n /\ alias[j].holder = h BY DEF HoldersOf
  <2>2. j # i /\ j \in Alias BY <1>6, <2>1 DEF Aliases
  <2>3. j \in Aliases' /\ alias'[j] = alias[j] BY <1>1, <1>2, <2>1, <2>2
  <2> QED BY <2>1, <2>3 DEF HoldersOf
<1>7. Holders'
  <2>1. ASSUME NEW e \in Email \ touched', NEW u \in User, copies'[e][u] > 0
        PROVE  u \in HoldersOf(Lower[To[e]])'
    <3>1. e \notin touched /\ Lower[To[e]] \notin names BY <1>3, <2>1 DEF Touch
    <3>2. u \in HoldersOf(Lower[To[e]]) BY <1>3, <2>1, <3>1 DEF Inv, Holders
    <3> QED BY <1>6, <3>1, <3>2
  <2>2. ASSUME job' # None, job'.email \notin touched'
        PROVE  (job.owner \in HoldersOf(Lower[To[job.email]]))'
    <3>1. job # None /\ job.email \in Email /\ job' = job BY <1>3, <2>2 DEF Inv, TypeOK, Job
    <3>2. job.email \notin touched /\ Lower[To[job.email]] \notin names BY <2>2, <3>1 DEF Touch
    <3>3. job.owner \in HoldersOf(Lower[To[job.email]]) BY <3>1, <3>2 DEF Inv, Holders
    <3> DEFINE n == Lower[To[job.email]]
    <3>4. HoldersOf(Lower[To[job.email]])' = HoldersOf(n)' OBVIOUS
    <3> QED BY <1>6, <3>1, <3>2, <3>3, <3>4
  <2> QED BY <1>5, <2>1, <2>2 DEF Holders
<1> QED BY <1>3, <1>4, <1>7, SignInsKept, CopiesKept DEF Inv

LEMMA AdministratorStep ==
    ASSUME Inv, Administrator
    PROVE  Inv'
<1>1. ASSUME Edit PROVE edits' \in 0 .. MaxEdits /\ UNCHANGED <<accounts, mail>>
  BY <1>1 DEF Edit, Inv, TypeOK
<1>2. ASSUME NEW i \in Alias, NEW n \in Spelling, NEW u \in User,
             AliasCreate(i, n, u) \/ AliasUpdate(i, n, u)
      PROVE  Inv'
  <2> DEFINE r == [local |-> Lower[n], holder |-> u]
             names == IF i \in Aliases THEN {alias[i].local, Lower[n]} ELSE {Lower[n]}
  <2>1. /\ alias' = [alias EXCEPT ![i] = r] /\ Touch(names) /\ u \in Users /\ Free(i, Lower[n])
        /\ edits' \in 0 .. MaxEdits /\ UNCHANGED <<accounts, mail>>
    BY <1>1, <1>2 DEF AliasCreate, AliasUpdate, Normalized
  <2>2. r \in Row /\ r.holder = u /\ r.local = Lower[n] /\ Lower[r.local] = r.local BY DEF Row
  <2>3. (i \in Aliases => alias[i].local \in names) /\ r.local \in names OBVIOUS
  <2> HIDE DEF r, names
  <2> QED BY <2>1, <2>2, <2>3, AliasChange
<1>3. ASSUME NEW i \in Alias, AliasDelete(i) PROVE Inv'
  <2>1. /\ alias' = [alias EXCEPT ![i] = None] /\ Touch({alias[i].local})
        /\ edits' \in 0 .. MaxEdits /\ UNCHANGED <<accounts, mail>>
    BY <1>1, <1>3 DEF AliasDelete
  <2> QED BY <2>1, AliasChange
<1> QED BY <1>2, <1>3 DEF Administrator

-----------------------------------------------------------------------------
(* The worker and the inbox.                                                  *)

\* A step on emails alone preserves the invariant if its two parts do.
LEMMA MailStep ==
    ASSUME Inv, UNCHANGED <<accounts, alias, touched, edits>>,
           status' \in [Email -> {None, "pending", "parsed", "review", "duplicate", "no_segments"}],
           job' \in Job \cup {None}, copies' \in [Email -> [User -> Nat]],
           Holders', Copies'
    PROVE  Inv'
<1>1. Users' = Users BY DEF Users, accounts
<1>2. TypeOK' BY <1>1 DEF Inv, TypeOK, Aliases, accounts
<1> QED BY <1>2, SignInsKept DEF Inv

LEMMA BeginStep ==
    ASSUME Inv, NEW e \in Email, Begin(e)
    PROVE  Inv'
<1>1. job = None /\ UNCHANGED <<accounts, alias, copies, touched, edits>> BY DEF Begin
<1>2. CASE status' = [status EXCEPT ![e] = "no_segments"] /\ UNCHANGED job
  <2>1. Holders' /\ Copies' BY <1>1, <1>2, HoldersKept, CopiesKept DEF Inv
  <2> QED BY <1>1, <1>2, <2>1, MailStep DEF Inv, TypeOK
<1>3. ASSUME NEW u \in HoldersOf(Lower[To[e]]), UNCHANGED status,
             job' = [email |-> e, owner |-> u, read |-> "not yet"]
      PROVE  Inv'
  <2>1. u \in User BY DEF HoldersOf, Inv, TypeOK, Users
  <2>2. job' \in Job /\ job'.email = e /\ job'.owner = u /\ job'.read # "new" BY <1>3, <2>1 DEF Job
  <2>3. \A n : HoldersOf(n)' = HoldersOf(n) BY <1>1 DEF HoldersOf, Aliases
  <2>4. Holders' BY <1>1, <1>3, <2>2, <2>3 DEF Inv, Holders, Aliases
  <2>5. Copies' BY <1>1, <2>2 DEF Inv, Copies, OneCopyEach
  <2> QED BY <1>1, <1>3, <2>2, <2>4, <2>5, MailStep DEF Inv, TypeOK
<1> QED BY <1>2, <1>3 DEF Begin

LEMMA CompareStep ==
    ASSUME Inv, Compare
    PROVE  Inv'
<1>1. job # None /\ UNCHANGED <<accounts, alias, status, copies, touched, edits>> BY DEF Compare
<1>2. PICK read \in {"nothing", IF Known(job.email, job.owner) THEN "known" ELSE "new"} :
        job' = [job EXCEPT !.read = read]
  BY DEF Compare
<1>3. job \in Job BY <1>1 DEF Inv, TypeOK
<1>4. job' \in Job /\ job'.email = job.email /\ job'.owner = job.owner /\ job'.read = read
  BY <1>2, <1>3 DEF Job
<1>5. \A n : HoldersOf(n)' = HoldersOf(n) BY <1>1 DEF HoldersOf, Aliases
<1>6. Holders' BY <1>1, <1>4, <1>5 DEF Inv, Holders, Aliases
<1>7. Known(job.email, job.owner)' = Known(job.email, job.owner) BY <1>1, <1>4 DEF Known
<1>8. Copies' BY <1>1, <1>2, <1>4, <1>7 DEF Inv, Copies, OneCopyEach, Known
<1> QED BY <1>1, <1>4, <1>6, <1>8, MailStep DEF Inv, TypeOK

LEMMA CommitStep ==
    ASSUME Inv, NEW verdict \in {"parsed", "review", "duplicate", "no_segments"}, Commit(verdict)
    PROVE  Inv'
<1> DEFINE e == job.email
           u == job.owner
<1>1. /\ job # None /\ job' = None /\ status' = [status EXCEPT ![e] = verdict]
      /\ UNCHANGED <<accounts, alias, touched, edits>>
  BY DEF Commit
<1>2. e \in Email /\ u \in User BY <1>1 DEF Inv, TypeOK, Job
<1>3. \A n : HoldersOf(n)' = HoldersOf(n) BY <1>1 DEF HoldersOf, Aliases
<1>4. CASE job.read # "new"
  <2>1. copies' = copies BY <1>4 DEF Commit
  <2>2. Holders' BY <1>1, <1>3, <2>1 DEF Inv, Holders, Aliases
  <2>3. Copies' BY <1>1, <2>1 DEF Inv, Copies, OneCopyEach
  <2> QED BY <1>1, <1>2, <2>1, <2>2, <2>3, MailStep DEF Inv, TypeOK
<1>5. CASE job.read = "new"
  <2>1. copies' = [copies EXCEPT ![e][u] = @ + 1] BY <1>5 DEF Commit
  <2>2. copies' \in [Email -> [User -> Nat]] /\ copies'[e][u] = copies[e][u] + 1
        /\ \A f \in Email, v \in User : f # e \/ v # u => copies'[f][v] = copies[f][v]
    BY <1>2, <2>1 DEF Inv, TypeOK
  <2>3. ASSUME NEW f \in Email, About[f] = About[e] PROVE copies[f][u] = 0
    BY <1>1, <1>2, <1>5, <2>3 DEF Inv, Copies, Known, TypeOK
  <2>4. Holders'
    <3>1. ASSUME NEW f \in Email \ touched', NEW v \in User, copies'[f][v] > 0
          PROVE  v \in HoldersOf(Lower[To[f]])'
      BY <1>1, <1>3, <2>2, <3>1 DEF Inv, Holders
    <3> QED BY <1>1, <3>1 DEF Inv, Holders, Aliases
  <2>5. Copies'
    <3>1. ASSUME NEW v \in User, NEW f \in Email, NEW g \in Email,
                 copies'[f][v] > 0, copies'[g][v] > 0, About[f] = About[g]
          PROVE  f = g /\ copies'[f][v] = 1
      <4>1. CASE v # u
        <5>1. copies'[f][v] = copies[f][v] /\ copies'[g][v] = copies[g][v] BY <2>2, <4>1
        <5> QED BY <3>1, <5>1 DEF Inv, Copies, OneCopyEach
      <4>2. CASE v = u /\ About[f] = About[e]
        <5>1. copies[f][u] = 0 /\ copies[g][u] = 0 /\ copies[e][u] = 0
          BY <1>2, <2>3, <3>1, <4>2
        <5>2. f = e
          <6>1. f # e => copies'[f][u] = copies[f][u] BY <1>2, <2>2
          <6> QED BY <3>1, <4>2, <5>1, <6>1
        <5>3. g = e
          <6>1. g # e => copies'[g][u] = copies[g][u] BY <1>2, <2>2
          <6> QED BY <3>1, <4>2, <5>1, <6>1
        <5>4. copies'[e][u] = 1 BY <2>2, <5>1
        <5> QED BY <4>2, <5>2, <5>3, <5>4
      <4>3. CASE v = u /\ About[f] # About[e]
        <5>1. copies'[f][v] = copies[f][v] /\ copies'[g][v] = copies[g][v] BY <2>2, <3>1, <4>3
        <5> QED BY <3>1, <5>1 DEF Inv, Copies, OneCopyEach
      <4> QED BY <4>1, <4>2, <4>3
    <3> QED BY <1>1, <3>1 DEF Copies, OneCopyEach
  <2> QED BY <1>1, <1>2, <2>2, <2>4, <2>5, MailStep DEF Inv, TypeOK
<1> QED BY <1>4, <1>5

LEMMA FailStep ==
    ASSUME Inv, Fail
    PROVE  Inv'
<1>1. job' = None /\ UNCHANGED <<accounts, alias, status, copies, touched, edits>> BY DEF Fail
<1>2. \A n : HoldersOf(n)' = HoldersOf(n) BY <1>1 DEF HoldersOf, Aliases
<1>3. Holders' BY <1>1, <1>2 DEF Inv, Holders, Aliases
<1>4. Copies' BY <1>1 DEF Inv, Copies, OneCopyEach
<1> QED BY <1>1, <1>3, <1>4, MailStep DEF Inv, TypeOK

\* Deliveries, decisions and deletions: there are no more copies than before.
LEMMA FewerCopies ==
    ASSUME Inv, UNCHANGED <<accounts, alias, job, touched, edits>>,
           status' \in [Email -> {None, "pending", "parsed", "review", "duplicate", "no_segments"}],
           copies' \in [Email -> [User -> Nat]],
           \A e \in Email, u \in User : copies'[e][u] <= copies[e][u]
    PROVE  Inv'
<1>1. \A e \in Email, u \in User : copies[e][u] \in Nat /\ copies'[e][u] \in Nat
  BY DEF Inv, TypeOK
<1>2. \A n : HoldersOf(n)' = HoldersOf(n) BY DEF HoldersOf, Aliases
<1>3. \A e \in Email, u \in User : copies'[e][u] > 0 => copies[e][u] > 0 BY <1>1
<1>4. Holders' BY <1>2, <1>3 DEF Inv, Holders, Aliases
<1>5. OneCopyEach'
  <2> SUFFICES ASSUME NEW v \in User, NEW f \in Email, NEW g \in Email,
                      copies'[f][v] > 0, copies'[g][v] > 0, About[f] = About[g]
               PROVE  f = g /\ copies'[f][v] = 1
    BY DEF OneCopyEach
  <2>1. f = g /\ copies[f][v] = 1 BY <1>3 DEF Inv, Copies, OneCopyEach
  <2> QED BY <1>1, <2>1
<1>6. job # None => job.owner \in User BY DEF Inv, TypeOK, Job
<1>7. Copies' BY <1>3, <1>5, <1>6 DEF Inv, Copies, Known
<1> QED BY <1>4, <1>7, MailStep DEF Inv, TypeOK

LEMMA OthersStep ==
    ASSUME Inv, NEW e \in Email, NEW u \in User,
           \/ Deliver(e) \/ Discard(u, e) \/ DeleteSegment(e, u)
           \/ \E verdict \in {"parsed", "pending"} : Decide(u, e, verdict)
    PROVE  Inv'
<1>1. \A f \in Email, v \in User : copies[f][v] \in Nat BY DEF Inv, TypeOK
<1>2. CASE Deliver(e) BY <1>1, <1>2, FewerCopies DEF Deliver, Inv, TypeOK
<1>3. ASSUME NEW verdict \in {"parsed", "pending"}, Decide(u, e, verdict) PROVE Inv'
  BY <1>1, <1>3, FewerCopies DEF Decide, Inv, TypeOK
<1>4. CASE Discard(u, e)
  <2>1. copies' = [copies EXCEPT ![e] = [v \in User |-> 0]] BY <1>4 DEF Discard
  <2>2. copies' \in [Email -> [User -> Nat]]
        /\ \A f \in Email, v \in User : copies'[f][v] = IF f = e THEN 0 ELSE copies[f][v]
    BY <2>1 DEF Inv, TypeOK
  <2>3. \A f \in Email, v \in User : copies'[f][v] <= copies[f][v] BY <1>1, <2>2
  <2> QED BY <1>4, <2>2, <2>3, FewerCopies DEF Discard, Inv, TypeOK
<1>5. CASE DeleteSegment(e, u)
  <2>1. copies' = [copies EXCEPT ![e][u] = @ - 1] /\ copies[e][u] > 0 BY <1>5 DEF DeleteSegment
  <2>2. copies' \in [Email -> [User -> Nat]] /\ copies'[e][u] = copies[e][u] - 1
        /\ \A f \in Email, v \in User : f # e \/ v # u => copies'[f][v] = copies[f][v]
    BY <1>1, <2>1 DEF Inv, TypeOK
  <2>3. \A f \in Email, v \in User : copies'[f][v] <= copies[f][v] BY <1>1, <2>2
  <2> QED BY <1>5, <2>2, <2>3, FewerCopies DEF DeleteSegment, Inv, TypeOK
<1> QED BY <1>2, <1>3, <1>4, <1>5

LEMMA InvStep == Inv /\ [Next]_vars => Inv'
<1> SUFFICES ASSUME Inv, [Next]_vars PROVE Inv' OBVIOUS
<1>1. ASSUME NEW u \in User, Person(u) PROVE Inv'
  BY <1>1, CallbackStep, JoinStep, OthersStep DEF Person
<1>2. ASSUME NEW e \in Email, Deliver(e) PROVE Inv'
  <2>1. Users' = Users /\ UNCHANGED <<accounts, alias, job, copies, touched, edits>>
    BY <1>2 DEF Deliver, Users, accounts
  <2>2. Holders' /\ Copies' BY <2>1, HoldersKept, CopiesKept DEF Inv
  <2> QED BY <1>2, <2>1, <2>2, MailStep DEF Deliver, Inv, TypeOK
<1>3. CASE Worker BY <1>3, BeginStep, CompareStep, CommitStep, FailStep DEF Worker
<1>4. CASE UNCHANGED vars
  <2>1. UNCHANGED <<accounts, alias, status, job, copies, touched, edits>> BY <1>4 DEF vars, mail
  <2>2. Holders' /\ Copies' BY <2>1, HoldersKept, CopiesKept DEF Inv
  <2> QED BY <2>1, <2>2, MailStep DEF Inv, TypeOK
<1> QED BY <1>1, <1>2, <1>3, <1>4, AdministratorStep DEF Next

LEMMA InvAlways == Spec => []Inv
BY InvInit, InvStep, PTL DEF Spec

-----------------------------------------------------------------------------
(* What follows.                                                              *)

\* Rows, jobs and aliases are of their types, and local parts are lower-cased.
THEOREM MailboxTypes == Spec => []TypeOK
<1>1. Inv => TypeOK BY DEF Inv
<1> QED BY <1>1, InvAlways, PTL

\* Administrators have the group, or signed in before the first user was there.
THEOREM MailboxAdmins == Spec => []LaterUsersNeedTheGroup
<1>1. Inv => LaterUsersNeedTheGroup BY DEF Inv, SignIns
<1> QED BY <1>1, InvAlways, PTL

\* Emails that wait are in somebody's inbox.
THEOREM MailboxNeverLost == Spec => []NeverLost
<1>1. Inv => NeverLost
  <2> SUFFICES ASSUME Inv, NEW e \in Email, Users # {} PROVE \E u \in Users : Owns(u, e)
    BY DEF NeverLost
  <2>1. PICK u \in Admins : TRUE BY DEF Inv, SignIns
  <2>2. u \in Users /\ admin[u] BY <2>1 DEF Admins
  <2> QED BY <2>2 DEF Owns
<1> QED BY <1>1, InvAlways, PTL

\* And in one inbox alone, administrators' apart.
THEOREM MailboxIsOnes == Spec => []OneMailbox
<1>1. Inv => OneMailbox
  <2> SUFFICES ASSUME Inv, NEW e \in Email, NEW u \in Users \ Admins, NEW v \in Users \ Admins,
                      Owns(u, e), Owns(v, e)
               PROVE  u = v
    BY DEF OneMailbox
  <2>1. u \in HoldersOf(Lower[To[e]]) /\ v \in HoldersOf(Lower[To[e]]) BY DEF Owns, Admins
  <2>2. PICK i \in Aliases : alias[i].local = Lower[To[e]] /\ alias[i].holder = u
    BY <2>1 DEF HoldersOf
  <2>3. PICK j \in Aliases : alias[j].local = Lower[To[e]] /\ alias[j].holder = v
    BY <2>1 DEF HoldersOf
  <2> QED BY <2>2, <2>3 DEF Inv, Holders
<1> QED BY <1>1, InvAlways, PTL

\* Nobody owns a booking twice.
THEOREM MailboxCopies == Spec => []OneCopyEach
<1>1. Inv => OneCopyEach BY DEF Inv, Copies
<1> QED BY <1>1, InvAlways, PTL

\* Who owns a booking is shown its email, unless the alias was changed.
THEOREM MailboxFiled == Spec => []FiledForReader
<1>1. Inv => FiledForReader
  <2> SUFFICES ASSUME Inv, NEW e \in Email \ touched, NEW u \in User, copies[e][u] > 0
               PROVE  u \in Users /\ Owns(u, e)
    BY DEF FiledForReader
  <2>1. u \in HoldersOf(Lower[To[e]]) BY DEF Inv, Holders
  <2>2. u \in Users BY <2>1 DEF HoldersOf, Inv, TypeOK
  <2> QED BY <2>1, <2>2 DEF Owns
<1> QED BY <1>1, InvAlways, PTL
=============================================================================
