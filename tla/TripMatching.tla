---------------------------- MODULE TripMatching ----------------------------
(* What belongs together. The worker compares the drafts it reads in an email *)
(* with the segments there are (dedup.py), and files the new ones in a trip   *)
(* of the same place and time or in a new one (cluster.py). A trip's page     *)
(* offers other trips to merge it with (consolidation.py, home.py), and its   *)
(* user may dismiss a pair for good.                                          *)
(*                                                                            *)
(* One user, who created all trips. The worker runs one job at a time. A      *)
(* request is one transaction and none comes between the steps of a parse:    *)
(* those that do are in TripMerge and TripFiling, the inbox in TripFiling and *)
(* EmailPipeline. Names of cities and hotels and keys (provider with          *)
(* confirmation number) are equal or not, their spelling left out.            *)
EXTENDS Integers, Sequences, FiniteSets

CONSTANTS Trip, Seg,      \* ids of rows, free for use again when deleted
          City, Port,     \* names of cities; airports, by IATA code
          CityOf,         \* the airport's city, by its table
          Near,           \* the pairs of airports and cities 500 km apart or less
          Draft,          \* what an email or a form may say of a segment
          Email, Carries, \* the drafts of each email, in their order
          Form,           \* the dates and destination a trip's form may give
          None,
          LastDay,        \* bound: dates are 0 .. LastDay
          MaxSteps        \* bound: parses and requests

Day == 0 .. LastDay
Place == [city : City \cup {None}, port : Port \cup {None}]
Transit == {"flight", "train", "transfer"}
\* A draft has type and status, key and name (of a hotel) or None, slot (its
\* start in half hours), first and last (the dates of its ends where they are),
\* utc (the date of its start in UTC), start and end.

\* The columns of trips, and merge_audit.
TripRow == [start : Day, end : Day, dest : City \cup {None}, into : Trip \cup {None}]
Audit   == [moved : SUBSET Seg, added : BOOLEAN, start : Day, end : Day]

ASSUME NoneIsNothing ==
    /\ None \notin City \cup Port \cup Trip \cup Draft \cup Email
    /\ None \notin TripRow /\ None \notin Audit
ASSUME AirportsHaveCities == CityOf \in [Port -> City]
ASSUME NearIsMutual == \A pair \in Near : <<pair[2], pair[1]>> \in Near
ASSUME DraftsAreRecords ==
    \A d \in Draft :
        /\ d.type \in Transit \cup {"lodging", "car", "activity"}
        /\ d.status \in {"confirmed", "tentative", "cancelled"}
        /\ d.first \in Day /\ d.last \in Day /\ d.first <= d.last /\ d.slot \in Nat
        /\ d.start \in Place /\ d.end \in Place
ASSUME EmailsCarryDrafts == Carries \in [Email -> Seq(Draft)]
ASSUME FormsAreRows == \A f \in Form : f \in TripRow /\ f.start <= f.end /\ f.into = None
ASSUME BoundsAreNats == LastDay \in Nat /\ MaxSteps \in Nat

VARIABLES
    trips,     \* the rows of trips, None for no row
    travelled, \* the trips with a row in trip_travelers, the user's
    audit,     \* merge_audit: segments moved, a traveler added, the old dates
    content,   \* the columns of a segment, None for no row
    tripOf,    \* its trip_id
    source,    \* its raw_email_id, None for one entered by hand
    dismissed, \* the pairs of trip_merge_dismissals
    reading,   \* the parse in progress: its email, which drafts are still to be filed
    made,      \* history: the draft the worker made this trip for, None when a
               \* user has made, edited or merged it
    corrected, \* history: the segments a form has written
    steps

rows     == <<trips, travelled, audit>>
segments == <<content, tripOf, source>>
history  == <<made, corrected>>
vars == <<rows, segments, dismissed, reading, history, steps>>

Rows  == {t \in Trip : trips[t] # None}
Live  == {t \in Rows : trips[t].into = None}
Open  == Live \cap travelled     \* require_traveler
Filed == {s \in Seg : content[s] # None}
In(t) == {s \in Filed : tripOf[s] = t}
Idle  == reading.left = {}

Least(a, b) == IF a <= b THEN a ELSE b
Greatest(a, b) == IF a >= b THEN a ELSE b

-----------------------------------------------------------------------------
(* dedup.py: the draft d is the segment with columns c.                       *)

SameKey(d, c) == d.key # None /\ d.key = c.key
SameRide(d, c) ==
    /\ d.type \in Transit /\ c.type = d.type
    /\ d.start.port # None /\ d.end.port # None
    /\ d.start.port = c.start.port /\ d.end.port = c.end.port
    /\ d.slot - 1 <= c.slot /\ c.slot <= d.slot + 1
\* The date of the draft is where the hotel is, that of the row in UTC.
SameNight(d, c) ==
    /\ d.type = "lodging" /\ c.type = "lodging"
    /\ d.name # None /\ d.name = c.name
    /\ c.utc = d.first

Is(d, c) == c.status # "cancelled" /\ (SameKey(d, c) \/ SameRide(d, c) \/ SameNight(d, c))

\* Mutant: only the strong match.
KnownByKey(d) == \E s \in Filed : SameKey(d, content[s])
Known(d) == \E s \in Filed : Is(d, content[s])

-----------------------------------------------------------------------------
(* cluster.py.                                                                *)

FirstOf(x, y) == IF x # None THEN x ELSE y
AirportCity(p) == IF p = None THEN None ELSE CityOf[p]

\* The place that names the trip, and the other one.
Main(d)  == IF d.type \in Transit THEN d.end ELSE d.start
Other(d) == IF d.type \in Transit THEN d.start ELSE d.end

DeriveDestination(d) == FirstOf(Main(d).city, Other(d).city)
ResolvedDestination(d) ==
    FirstOf(FirstOf(AirportCity(Main(d).port), Main(d).city),
            FirstOf(AirportCity(Other(d).port), Other(d).city))

LocationProximity(d, trip) ==
    /\ trip.dest # None
    /\ trip.dest \in {ResolvedDestination(d), AirportCity(d.start.port), AirportCity(d.end.port)}

\* Mutant: adjacent days are not overlapping ones.
DatesOverlap(d, trip) == d.first <= trip.end /\ d.last >= trip.start
DatesTouch(d, trip)   == d.first - 1 <= trip.end /\ d.last + 1 >= trip.start

Candidates(d) == {t \in Open : DatesTouch(d, trips[t]) /\ LocationProximity(d, trips[t])}

\* Twice the days between the draft and the middle of the trip: its score is
\* 2 / (2 + Distance).
Distance(d, t) ==
    LET twice == trips[t].start + trips[t].end - 2 * d.first
    IN  IF twice < 0 THEN -twice ELSE twice

Best(d) == {b \in Candidates(d) : \A t \in Candidates(d) : Distance(d, b) <= Distance(d, t)}

\* The second score is within a fifth of the first. Just at a fifth the
\* rounding of a quotient of floats decides.
TooClose(d, b) == \E t \in Candidates(d) \ {b} : 5 * (2 + Distance(d, b)) >= 4 * (2 + Distance(d, t))
ClearOf(d, b)  == \A t \in Candidates(d) \ {b} : 5 * (2 + Distance(d, b)) <= 4 * (2 + Distance(d, t))

\* Mutant: the runner-up is not looked at.
BestAtAll(d) == Best(d)
\* The trips cluster_for_user may attach d to, whatever order the rows come in;
\* and those it may name when it finds the choice ambiguous.
Attachable(d) == {b \in Best(d) : ClearOf(d, b)}
Ambiguous(d)  == {b \in Best(d) : TooClose(d, b)}

-----------------------------------------------------------------------------
(* The worker.                                                                *)

Init ==
    /\ trips = [t \in Trip |-> None] /\ travelled = {}
    /\ audit = [t \in Trip |-> None]
    /\ content = [s \in Seg |-> None] /\ tripOf = [s \in Seg |-> None]
    /\ source = [s \in Seg |-> None]
    /\ dismissed = {}
    /\ reading = [of |-> None, left |-> {}]
    /\ made = [t \in Trip |-> None] /\ corrected = {}
    /\ steps = 0

Step == Idle /\ steps < MaxSteps /\ steps' = steps + 1

\* An email is parsed, the first time or again: drafts that are known already
\* are left out.
Parse(e) ==
    /\ Step
    /\ reading' = [of |-> e, left |-> {i \in DOMAIN Carries[e] : ~Known(Carries[e][i])}]
    /\ UNCHANGED <<rows, segments, dismissed, history>>

Insert(s, d, t, e) ==
    /\ s \notin Filed
    /\ content' = [content EXCEPT ![s] = d]
    /\ tripOf' = [tripOf EXCEPT ![s] = t]
    /\ source' = [source EXCEPT ![s] = e]

\* A row for a trip of d's dates.
TripFor(d) == [start |-> d.first, end |-> d.last, dest |-> DeriveDestination(d), into |-> None]

\* The drafts are filed in their order.
Turn(i) == /\ i \in reading.left /\ \A j \in reading.left : i <= j
           /\ reading' = [reading EXCEPT !.left = @ \ {i}]

\* create_new
FileNew(i, s, t) ==
    /\ Turn(i)
    /\ LET d == Carries[reading.of][i]
       IN  /\ Candidates(d) = {} /\ t \notin Rows
           /\ trips' = [trips EXCEPT ![t] = TripFor(d)]
           /\ made' = [made EXCEPT ![t] = d]
           /\ Insert(s, d, t, reading.of)
    /\ travelled' = travelled \cup {t}
    /\ UNCHANGED <<audit, dismissed, corrected, steps>>

\* attach or ambiguous: either way the draft goes there, and the trip keeps its
\* dates.
FileWith(i, s, t) ==
    /\ Turn(i)
    /\ LET d == Carries[reading.of][i]
       IN  t \in Attachable(d) \cup Ambiguous(d) /\ Insert(s, d, t, reading.of)
    /\ UNCHANGED <<rows, dismissed, history, steps>>

-----------------------------------------------------------------------------
(* The pages.                                                                 *)

\* No traveler is added.
CreateTrip(t, f) ==
    /\ Step /\ t \notin Rows
    /\ trips' = [trips EXCEPT ![t] = f]
    /\ UNCHANGED <<travelled, audit, segments, dismissed, reading, history>>

UpdateTrip(t, f) ==
    /\ Step /\ t \in Open
    /\ trips' = [trips EXCEPT ![t] = f]
    /\ made' = [made EXCEPT ![t] = None]
    /\ UNCHANGED <<travelled, audit, segments, dismissed, reading, corrected>>

Drop(S) ==
    /\ content' = [s \in Seg |-> IF s \in S THEN None ELSE content[s]]
    /\ tripOf' = [s \in Seg |-> IF s \in S THEN None ELSE tripOf[s]]
    /\ source' = [s \in Seg |-> IF s \in S THEN None ELSE source[s]]
    /\ corrected' = corrected \ S

\* Mutants: merged_into_id is no foreign key; all dismissals are forgotten.
PointsStill(t, u) == trips[u]
ForgetAll(t)      == {}

\* DELETE FROM trips, with its cascades: the trip u, the dismissals that are left.
Unpointed(t, u)   == IF u \in Rows /\ trips[u].into = t THEN [trips[u] EXCEPT !.into = None]
                     ELSE trips[u]
StillDismissed(t) == {pair \in dismissed : t \notin pair}

DropTrip(t) ==
    /\ trips' = [u \in Trip |-> IF u = t THEN None ELSE Unpointed(t, u)]
    /\ travelled' = travelled \ {t}
    /\ audit' = [audit EXCEPT ![t] = None]
    /\ made' = [made EXCEPT ![t] = None]
    /\ Drop(In(t))
    /\ dismissed' = StillDismissed(t)
    /\ UNCHANGED reading

DeleteTrip(t) == Step /\ t \in Open /\ DropTrip(t)
Purge(t)      == Step /\ t \in Rows \ Live /\ DropTrip(t)

Widen(t, d) == [trips[t] EXCEPT !.start = Least(@, d.first), !.end = Greatest(@, d.last)]

\* A segment by hand, in a trip there is or in one made for it. Forms count days
\* in UTC.
CreateSegment(s, t, d) ==
    /\ Step /\ d.first = d.utc
    /\ \/ t \in Open /\ trips' = [trips EXCEPT ![t] = Widen(t, d)]
       \/ t \notin Rows /\ trips' = [trips EXCEPT ![t] = TripFor(d)]
    /\ travelled' = travelled \cup {t}
    /\ Insert(s, d, t, None)
    /\ made' = [made EXCEPT ![t] = None]
    /\ corrected' = corrected \cup {s}
    /\ UNCHANGED <<audit, dismissed, reading>>

\* Its form writes all of it but the type.
UpdateSegment(s, d) ==
    /\ Step /\ s \in Filed /\ tripOf[s] \in Open
    /\ d.first = d.utc /\ d.type = content[s].type
    /\ content' = [content EXCEPT ![s] = d]
    /\ trips' = [trips EXCEPT ![tripOf[s]] = Widen(tripOf[s], d)]
    /\ made' = [made EXCEPT ![tripOf[s]] = None]
    /\ corrected' = corrected \cup {s}
    /\ UNCHANGED <<travelled, audit, tripOf, source, dismissed, reading>>

DeleteSegment(s) ==
    /\ Step /\ s \in Filed /\ tripOf[s] \in Open
    /\ Drop({s})
    /\ UNCHANGED <<rows, dismissed, reading, made>>

MergeInto(s, t) ==
    /\ Step /\ s # t /\ s \in Live /\ t \in Live
    /\ trips' = [trips EXCEPT ![s].into = t,
                              ![t].start = Least(@, trips[s].start),
                              ![t].end = Greatest(@, trips[s].end)]
    /\ travelled' = (travelled \cup (IF s \in travelled THEN {t} ELSE {})) \ {s}
    /\ audit' = [audit EXCEPT ![s] = [moved |-> In(s), added |-> s \in travelled /\ t \notin travelled,
                                      start |-> trips[t].start, end |-> trips[t].end]]
    /\ tripOf' = [x \in Seg |-> IF x \in In(s) THEN t ELSE tripOf[x]]
    /\ made' = [made EXCEPT ![s] = None, ![t] = None]
    /\ UNCHANGED <<content, source, dismissed, reading, corrected>>

UndoMerge(s) ==
    /\ Step /\ s \in Rows \ Live /\ trips[s].into \in Live
    /\ LET t == trips[s].into
           back == audit[s].moved \cap In(t)
       IN  /\ trips' = [trips EXCEPT ![s].into = None, ![t].start = audit[s].start,
                                     ![t].end = audit[s].end]
           /\ travelled' = (travelled \ (IF audit[s].added THEN {t} ELSE {})) \cup {s}
           /\ tripOf' = [x \in Seg |-> IF x \in back THEN s ELSE tripOf[x]]
    /\ audit' = [audit EXCEPT ![s] = None]
    /\ UNCHANGED <<content, source, dismissed, reading, history>>

-----------------------------------------------------------------------------
(* Suggestions (consolidation.py, home.py).                                   *)

Ends == {"start", "end"}

\* How often a city is an end of a confirmed segment. (Of the last 20 of them:
\* bound, a run has fewer.)
Seen(C) ==
    Cardinality({p \in Filed \X Ends : content[p[1]].status = "confirmed"
                                       /\ content[p[1]][p[2]].city \in C})

\* infer_home: the city seen most, at three ends in ten. Of several, the first
\* the query meets.
Home(h) ==
    \/ /\ h \in City /\ \A c \in City : Seen({c}) <= Seen({h})
       /\ Seen({h}) > 0 /\ 10 * Seen({h}) >= 3 * Seen(City)
    \/ h = None /\ \A c \in City : Seen({c}) = 0 \/ 10 * Seen({c}) < 3 * Seen(City)

\* from_trip: the cities where the segments S begin and end, and all places to
\* measure from. Segments of one start come in any order.
Bounds(S) == {p \in S \X S : /\ \A x \in S : content[p[1]].slot <= content[x].slot
                             /\ \A x \in S : content[p[2]].slot >= content[x].slot
                             /\ p[1] = p[2] => S = {p[1]}}
View(S, p) ==
    LET from == content[p[1]].start.city
        to   == content[p[2]].end.city
    IN  [start |-> from, end |-> to,
         places |-> ({content[x][e].port : x \in S, e \in Ends} \cup {from, to}) \ {None}]
Views(S) == IF S = {} THEN {[start |-> None, end |-> None, places |-> {}]}
            ELSE {View(S, p) : p \in Bounds(S)}

\* The target a, the candidate b: the next leg out, the closing leg home.
HomeAnchored(h, a, b) ==
    /\ h # None /\ b.end # h
    /\ a.start = b.end \/ (a.end = h /\ b.start = h)

Shared(a, b) == \E c \in City : c \in {a.start, a.end} /\ c \in {b.start, b.end}
CloseBy(a, b) == \E p \in a.places, q \in b.places : <<p, q>> \in Near

Weight(h, a, b) == IF HomeAnchored(h, a, b) THEN 3
                   ELSE IF Shared(a, b) THEN 2
                   ELSE IF CloseBy(a, b) THEN 1 ELSE 0

\* Mutant: the trip begins in the window.
BeginsInWindow(t, u) == /\ trips[u].start <= trips[t].end + 3
                        /\ trips[u].start >= trips[t].start - 3
InWindow(t, u) == /\ trips[u].start <= trips[t].end + 3
                  /\ trips[u].end >= trips[t].start - 3

\* _dismissed_pair_ids: the row may have t on either side.
DismissedWith(t) == {u \in Trip : {t, u} \in dismissed}

Standing(u) == {s \in In(u) : content[s].status # "cancelled"}

\* The trips the page with the segments S of trip t may offer (three at most,
\* the best: bound, a run has no more).
Offers(t, S) ==
    {u \in Live \ {t} :
        /\ InWindow(t, u) /\ u \notin DismissedWith(t)
        /\ \E h \in City \cup {None}, a \in Views(S), b \in Views(Standing(u)) :
               Home(h) /\ Weight(h, a, b) > 0}

\* The trip's own page, which counts cancelled segments; and the inbox's, with
\* the segments of an email, one of them in t.
OnPage(t) == Offers(t, In(t))
OnInbox(e, t) == Offers(t, {s \in Filed : source[s] = e})

\* dismiss_merge
Dismiss(t, u) ==
    /\ Step /\ t # u /\ t \in Rows /\ u \in Rows
    /\ dismissed' = dismissed \cup {{t, u}}
    /\ UNCHANGED <<rows, segments, reading, history>>

-----------------------------------------------------------------------------
Pages ==
    \/ \E t \in Trip, f \in Form : CreateTrip(t, f) \/ UpdateTrip(t, f)
    \/ \E t \in Trip : DeleteTrip(t) \/ Purge(t) \/ UndoMerge(t)
    \/ \E s, t \in Trip : MergeInto(s, t) \/ Dismiss(s, t)
    \/ \E s \in Seg, d \in Draft : UpdateSegment(s, d)
    \/ \E s \in Seg, d \in Draft, t \in Trip : CreateSegment(s, t, d)
    \/ \E s \in Seg : DeleteSegment(s)

Next ==
    \/ \E e \in Email : Parse(e)
    \/ \E i \in reading.left, s \in Seg, t \in Trip : FileNew(i, s, t) \/ FileWith(i, s, t)
    \/ Pages

Spec == Init /\ [][Next]_vars

-----------------------------------------------------------------------------
(* Properties *)

\* The columns hold what the schema allows, and every reference leads to a row.
TypeOK ==
    /\ trips \in [Trip -> TripRow \cup {None}]
    /\ \A t \in Rows : trips[t].into \in Rows \cup {None}
    /\ travelled \subseteq Rows
    /\ audit \in [Trip -> Audit \cup {None}]
    /\ \A t \in Rows \ Live : audit[t] # None
    /\ \A t \in Rows : trips[t].into # t
    /\ content \in [Seg -> Draft \cup {None}]
    /\ tripOf \in [Seg -> Trip \cup {None}]
    /\ \A s \in Filed : tripOf[s] \in Rows
    /\ source \in [Seg -> Email \cup {None}]
    /\ dismissed \subseteq SUBSET Rows
    /\ reading \in [of : Email \cup {None}, left : SUBSET Nat]
    /\ reading.left \subseteq (IF reading.of = None THEN {} ELSE DOMAIN Carries[reading.of])
    /\ made \in [Trip -> Draft \cup {None}] /\ corrected \subseteq Filed
    /\ steps \in 0 .. MaxSteps

\* A booking confirmed by two emails is one segment: what two emails brought,
\* and no form has written, never matches both ways, whatever was merged, undone,
\* deleted or parsed again in between (find_existing_segment before the inserts
\* of worker.py). One way is possible: a row that is cancelled, or a hotel night
\* whose date in UTC is not the date there.
Twins(x, y) ==
    /\ source[x] # source[y]
    /\ Is(content[x], content[y]) /\ Is(content[y], content[x])
NoTwins == \A x, y \in Filed \ corrected : source[x] # None /\ source[y] # None => ~Twins(x, y)

\* Where a draft is attached does not depend on the order the trips are read in:
\* the margin of cluster_for_user leaves one trip at most, and a trip it calls
\* ambiguous may be another one only at the margin itself.
AttachIsForced ==
    \A d \in Draft : \A b, c \in Open :
        b \in Attachable(d) /\ c \in Best(d) => b = c

\* The worker does not split a stay: two trips it made, which no user has touched
\* since, for drafts whose city is spelt as their airport's is, are of different
\* places or more than a day apart (cluster_for_user).
AsSpelt(d) == DeriveDestination(d) # None /\ DeriveDestination(d) = ResolvedDestination(d)
NoRivals ==
    \A t, u \in Live :
        /\ t # u /\ made[t] # None /\ made[u] # None
        /\ AsSpelt(made[t]) /\ AsSpelt(made[u])
        /\ trips[t].dest = trips[u].dest
        => trips[t].end + 1 < trips[u].start \/ trips[u].end + 1 < trips[t].start

\* A dismissed pair is offered on no page, from neither side, as long as both
\* rows are there: not after one was merged away and came back, nor after
\* other trips went (dismiss_merge, _dismissed_pair_ids, the cascades).
Offered(t, u) == u \in OnPage(t) \/ \E e \in Email : u \in OnInbox(e, t)
DismissedStays ==
    [][\A t, u \in Rows : {t, u} \in dismissed /\ {t, u} \subseteq Rows' => ~Offered(t, u)']_vars

\* A pair is found from both pages or from neither, when every end of their
\* segments has a city and none is cancelled: the next leg seen from one side is
\* a shared city from the other (consolidation_candidates). Without the city it
\* is not so: a trip that ends at a hotel and one that begins nowhere are a next
\* leg, as both cities are None, from one side only.
Plain(t) == /\ In(t) # {}
            /\ \A s \in In(t) : /\ content[s].status # "cancelled"
                                /\ content[s].start.city # None /\ content[s].end.city # None
FoundFromBothSides ==
    \A t, u \in Live : Plain(t) /\ Plain(u) => (u \in OnPage(t) <=> t \in OnPage(u))
=============================================================================
