-------------------------- MODULE TripLedgerProofs --------------------------
(* TripMerge implements TripLedger, for every set of trips, items and days    *)
(* and every window, while no two requests collide over the source of a merge *)
(* or undo (Apart).  The homes of the ledger are the first trips of chains of *)
(* claims; the lemmas of the first part are about such chains, those of the   *)
(* second about the recursive functions of TripLedger, and the third part     *)
(* takes the steps one by one.                                                *)
EXTENDS MCTripMerge, TripMergeProofs

-----------------------------------------------------------------------------
(* Chains of merges *)

IsFirst(C, ptr, h) == h \in C /\ \A c \in C : ptr[c] # h

\* The trips of C are merged one into the next, and the last into e.
Chain(C, ptr, e) ==
    /\ \A D \in SUBSET C : D # {} => \E d \in D : ptr[d] \notin D
    /\ \A c \in C : ptr[c] \in C \cup {e}
    /\ e \notin C
    /\ \A c, d \in C : ptr[c] = ptr[d] => c = d
    /\ C # {} => \E h \in C : IsFirst(C, ptr, h)

\* The set of trips on the way from h is the least one that is closed; two
\* chains with one end share it, and going back from it a trip of both is one
\* way only.
LEMMA FirstIsUnique ==
  ASSUME NEW C, NEW ptr, NEW e, Chain(C, ptr, e),
         NEW g, IsFirst(C, ptr, g), NEW h, IsFirst(C, ptr, h)
  PROVE  g = h
<1>. DEFINE Closed(A) == \A c \in A : ptr[c] \in C => ptr[c] \in A
            Way == {c \in C : \A A \in SUBSET C : h \in A /\ Closed(A) => c \in A}
            Off == C \ Way
<1>1. h \in Way
  BY DEF IsFirst
<1>2. \A c \in Way : ptr[c] \in C => ptr[c] \in Way
  OBVIOUS
<1>3. \A c \in Way : c = h \/ \E b \in Way : ptr[b] = c
  <2>. SUFFICES ASSUME NEW c \in Way, c # h, \A b \in Way : ptr[b] # c
                PROVE  FALSE
    OBVIOUS
  <2>1. h \in Way \ {c} /\ Way \ {c} \in SUBSET C /\ Closed(Way \ {c})
    BY <1>1, <1>2
  <2>. QED
    BY <2>1
<1>4. PICK z \in Way : ptr[z] \notin Way
  BY <1>1 DEF Chain
<1>5. ptr[z] = e
  BY <1>2, <1>4 DEF Chain
<1>. SUFFICES ASSUME g # h PROVE FALSE
  OBVIOUS
<1>6. g \in Off
  BY <1>3 DEF IsFirst
<1>7. PICK d \in Off : ptr[d] \notin Off
  BY <1>6 DEF Chain
<1>8. ptr[d] # e
  BY <1>5, <1>7 DEF Chain
<1>9. ptr[d] \in Way
  BY <1>7, <1>8 DEF Chain
<1>10. ptr[d] # h
  BY <1>7 DEF IsFirst
<1>11. PICK b \in Way : ptr[b] = ptr[d]
  BY <1>3, <1>9, <1>10
<1>12. b = d
  BY <1>7, <1>11 DEF Chain
<1>. QED
  BY <1>7, <1>12

LEMMA FirstOfIsFirst ==
  ASSUME NEW C, NEW ptr, NEW e, Chain(C, ptr, e)
  PROVE  /\ C = {} => FirstOf(C, ptr, e) = e
         /\ C # {} => IsFirst(C, ptr, FirstOf(C, ptr, e))
         /\ \A h : IsFirst(C, ptr, h) => FirstOf(C, ptr, e) = h
<1>1. C = {} => FirstOf(C, ptr, e) = e
  BY DEF FirstOf
<1>2. C # {} => IsFirst(C, ptr, FirstOf(C, ptr, e))
  <2>1. C # {} => \E t \in C : \A s \in C : ptr[s] # t
    BY DEF Chain, IsFirst
  <2>. QED
    BY <2>1 DEF FirstOf, IsFirst
<1>3. ASSUME NEW h, IsFirst(C, ptr, h)  PROVE FirstOf(C, ptr, e) = h
  BY <1>2, <1>3, FirstIsUnique DEF IsFirst
<1>. QED
  BY <1>1, <1>2, <1>3

\* A merge of the end of a chain puts the end into it and keeps its first trip.
LEMMA ChainGrows ==
  ASSUME NEW C, NEW ptr, NEW e, Chain(C, ptr, e),
         NEW new, NEW d, d \notin C, d # e,
         \A c \in C : new[c] = ptr[c], new[e] = d, NEW B, B = C \cup {e}
  PROVE  Chain(B, new, d) /\ FirstOf(B, new, d) = FirstOf(C, ptr, e)
<1>1. ASSUME NEW D \in SUBSET B, D # {}  PROVE \E x \in D : new[x] \notin D
  <2>1. CASE e \in D
    BY <1>1, <2>1
  <2>2. CASE e \notin D
    BY <1>1, <2>2 DEF Chain
  <2>. QED
    BY <2>1, <2>2
<1>2. \A c \in B : new[c] \in B \cup {d}
  BY DEF Chain
<1>3. \A a, c \in B : new[a] = new[c] => a = c
  <2>1. \A c \in C : new[c] # d
    BY DEF Chain
  <2>. QED
    BY <2>1 DEF Chain
<1>4. C = {} => IsFirst(B, new, e)
  BY DEF IsFirst
<1>5. \A h : IsFirst(C, ptr, h) => IsFirst(B, new, h)
  BY DEF IsFirst
<1>6. \E h \in B : IsFirst(B, new, h)
  BY <1>4, <1>5 DEF Chain, IsFirst
<1>7. Chain(B, new, d)
  BY <1>1, <1>2, <1>3, <1>6 DEF Chain
<1>8. C = {} => FirstOf(B, new, d) = FirstOf(C, ptr, e)
  BY <1>4, <1>7, FirstOfIsFirst
<1>9. C # {} => FirstOf(B, new, d) = FirstOf(C, ptr, e)
  BY <1>5, <1>7, FirstOfIsFirst
<1>. QED
  BY <1>7, <1>8, <1>9

\* An undo of the last merge makes the last trip the end, the first if it was.
LEMMA ChainShrinks ==
  ASSUME NEW C, NEW ptr, NEW e, Chain(C, ptr, e),
         NEW s \in C, ptr[s] = e, NEW B, B = C \ {s},
         NEW new, \A c \in B : new[c] = ptr[c]
  PROVE  Chain(B, new, s) /\ FirstOf(B, new, s) = FirstOf(C, ptr, e)
<1>1. \A c \in B : ptr[c] \in C
  BY DEF Chain
<1>2. IsFirst(C, ptr, s) => B = {}
  <2>. SUFFICES ASSUME IsFirst(C, ptr, s), B # {} PROVE FALSE
    OBVIOUS
  <2>1. PICK d \in B : ptr[d] \notin B
    BY DEF Chain
  <2>. QED
    BY <1>1, <2>1 DEF IsFirst
<1>3. \A h : h # s /\ IsFirst(C, ptr, h) => IsFirst(B, new, h)
  BY DEF IsFirst
<1>4. PICK h \in C : IsFirst(C, ptr, h)
  BY DEF Chain
<1>5. B # {} => IsFirst(B, new, h)
  BY <1>2, <1>3, <1>4
<1>6. Chain(B, new, s)
  <2>1. ASSUME NEW D \in SUBSET B, D # {}  PROVE \E x \in D : new[x] \notin D
    BY <2>1 DEF Chain
  <2>2. \A c \in B : new[c] \in B \cup {s}
    BY <1>1
  <2>3. \A c, d \in B : new[c] = new[d] => c = d
    BY DEF Chain
  <2>. QED
    BY <1>5, <2>1, <2>2, <2>3 DEF Chain, IsFirst
<1>7. B = {} => C = {s}
  OBVIOUS
<1>8. B = {} => FirstOf(B, new, s) = FirstOf(C, ptr, e)
  BY <1>4, <1>6, <1>7, FirstOfIsFirst
<1>9. B # {} => FirstOf(B, new, s) = FirstOf(C, ptr, e)
  BY <1>4, <1>5, <1>6, FirstOfIsFirst
<1>. QED
  BY <1>6, <1>8, <1>9

\* A purge takes the first trips of a chain.
LEMMA ChainIsCut ==
  ASSUME NEW C, NEW ptr, NEW e, Chain(C, ptr, e),
         NEW P, e \notin P, \A c \in C : ptr[c] \in P => c \in P,
         NEW new, \A c \in C \ P : new[c] = ptr[c]
  PROVE  /\ Chain(C \ P, new, e)
         /\ \A c \in C \cap P : ptr[c] \notin P => ptr[c] = FirstOf(C \ P, new, e)
         /\ C # {} /\ FirstOf(C, ptr, e) \notin P
                => FirstOf(C, ptr, e) = FirstOf(C \ P, new, e)
<1>. DEFINE B == C \ P
<1>1. \A c \in B : new[c] \in B \cup {e}
  BY DEF Chain
<1>2. ASSUME NEW D \in SUBSET B, D # {}  PROVE \E x \in D : new[x] \notin D
  BY <1>2 DEF Chain
<1>3. \A c, d \in B : new[c] = new[d] => c = d
  BY DEF Chain
<1>4. ASSUME NEW c \in C \cap P, ptr[c] \in B  PROVE IsFirst(B, new, ptr[c])
  BY <1>4 DEF Chain, IsFirst
<1>5. ASSUME NEW c \in C \cap P, ptr[c] = e  PROVE B = {}
  <2>. SUFFICES ASSUME B # {} PROVE FALSE
    OBVIOUS
  <2>1. PICK d \in B : ptr[d] \notin B
    BY DEF Chain
  <2>2. ptr[d] = e
    BY <1>1, <2>1
  <2>. QED
    BY <1>5, <2>2 DEF Chain
<1>6. ASSUME NEW h, IsFirst(C, ptr, h), h \notin P  PROVE IsFirst(B, new, h)
  BY <1>6 DEF IsFirst
<1>7. B # {} => \E h \in B : IsFirst(B, new, h)
  <2>1. CASE C \cap P = {}
    BY <1>6, <2>1 DEF Chain
  <2>2. CASE C \cap P # {}
    <3>1. PICK d \in C \cap P : ptr[d] \notin C \cap P
      BY <2>2 DEF Chain
    <3>2. ptr[d] \in B \/ ptr[d] = e
      BY <3>1 DEF Chain
    <3>. QED
      BY <1>4, <1>5, <3>2 DEF IsFirst
  <2>. QED
    BY <2>1, <2>2
<1>8. Chain(B, new, e)
  BY <1>1, <1>2, <1>3, <1>7 DEF Chain
<1>9. ASSUME NEW c \in C \cap P, ptr[c] \notin P  PROVE ptr[c] = FirstOf(B, new, e)
  <2>1. ptr[c] \in B \/ ptr[c] = e
    BY <1>9 DEF Chain
  <2>. HIDE DEF B
  <2>. QED
    BY <1>4, <1>5, <1>8, <2>1, FirstOfIsFirst
<1>10. ASSUME C # {}, FirstOf(C, ptr, e) \notin P
       PROVE  FirstOf(C, ptr, e) = FirstOf(B, new, e)
  <2>1. IsFirst(C, ptr, FirstOf(C, ptr, e))
    BY <1>10, FirstOfIsFirst
  <2>2. IsFirst(B, new, FirstOf(C, ptr, e))
    BY <1>6, <1>10, <2>1
  <2>. HIDE DEF B
  <2>. QED
    BY <1>8, <2>2, FirstOfIsFirst
<1>. QED
  BY <1>8, <1>9, <1>10

-----------------------------------------------------------------------------
(* The recursive functions of TripLedger *)

IsWalk(f, S, P, ptr) == f = [s \in S |-> IF s \in P THEN f[ptr[s]] ELSE s]

\* A walk along ptr while in P exists as a function, whether it ends or not.
LEMMA WalkExists ==
  ASSUME NEW S, NEW P, NEW ptr, \A s \in S \cap P : ptr[s] \in S
  PROVE  \E f : IsWalk(f, S, P, ptr)
<1>. DEFINE Closed(A) == \A c \in A : c \in P => ptr[c] \in A
            Way(s) == {u \in S : \A A \in SUBSET S : s \in A /\ Closed(A) => u \in A}
            Ends(s) == Way(s) \ P
            g == [s \in S |-> CHOOSE u : u \in Ends(s)]
<1>1. ASSUME NEW s \in S, s \notin P  PROVE Ends(s) = {s}
  <2>1. Closed({s})
    BY <1>1
  <2>2. {s} \in SUBSET S
    OBVIOUS
  <2>. QED
    BY <1>1, <2>1, <2>2
<1>2. ASSUME NEW s \in S, s \in P  PROVE Ends(s) = Ends(ptr[s])
  <2>1. ASSUME NEW u \in Ends(ptr[s])  PROVE u \in Ends(s)
    BY <1>2, <2>1
  <2>2. ASSUME NEW u \in Ends(s), NEW A \in SUBSET S, ptr[s] \in A, Closed(A)
        PROVE  u \in A
    <3>1. A \cup {s} \in SUBSET S /\ Closed(A \cup {s})
      BY <1>2, <2>2
    <3>2. u \in A \cup {s}
      BY <2>2, <3>1
    <3>. QED
      BY <1>2, <2>2, <3>2
  <2>3. Ends(s) \subseteq Ends(ptr[s])
    BY <2>2
  <2>. QED
    BY <2>1, <2>3
<1>3. ASSUME NEW s \in S  PROVE g[s] = IF s \in P THEN g[ptr[s]] ELSE s
  <2>1. CASE s \in P
    <3>1. g[s] = CHOOSE u : u \in Ends(s)
      OBVIOUS
    <3>2. g[ptr[s]] = CHOOSE u : u \in Ends(ptr[s])
      BY <2>1
    <3>. HIDE DEF g, Ends
    <3>. QED
      BY <1>2, <2>1, <3>1, <3>2
  <2>2. CASE s \notin P
    <3>1. g[s] = CHOOSE u : u \in Ends(s)
      OBVIOUS
    <3>. HIDE DEF g, Ends
    <3>2. \A u : u \in Ends(s) <=> u = s
      BY <1>1, <2>2
    <3>. QED
      BY <2>2, <3>1, <3>2
  <2>. QED
    BY <2>1, <2>2
<1>4. g = [s \in S |-> IF s \in P THEN g[ptr[s]] ELSE s]
  <2>1. g = [s \in S |-> g[s]]
    OBVIOUS
  <2>. HIDE DEF g
  <2>. QED
    BY <1>3, <2>1
<1>5. IsWalk(g, S, P, ptr)
  <2>. HIDE DEF g
  <2>. QED
    BY <1>4 DEF IsWalk
<1>. QED
  BY <1>5

LEMMA RootUnfolds ==
  ASSUME NEW ptr \in [Trip -> Trip \cup {NoTrip}], NEW t \in Trip
  PROVE  /\ ptr[t] = NoTrip => Ledger!Root(ptr, t) = t
         /\ ptr[t] # NoTrip => Ledger!Root(ptr, t) = Ledger!Root(ptr, ptr[t])
<1>. DEFINE P == {s \in Trip : ptr[s] # NoTrip}
            Walk(f) == f = [s \in Trip |-> IF ptr[s] = NoTrip THEN s ELSE f[ptr[s]]]
            end == CHOOSE f : Walk(f)
<1>1. \E f : Walk(f)
  <2>1. \A s \in Trip \cap P : ptr[s] \in Trip
    OBVIOUS
  <2>2. PICK f : IsWalk(f, Trip, P, ptr)
    <3>. HIDE DEF P
    <3>. QED
      BY <2>1, WalkExists
  <2>3. Walk(f)
    BY <2>2 DEF IsWalk
  <2>. QED
    BY <2>3
<1>2. Walk(end)
  BY <1>1
<1>3. \A s \in Trip : Ledger!Root(ptr, s) = end[s]
  BY DEF Ledger!Root
<1>. HIDE DEF end
<1>4. \A s \in Trip : end[s] = IF ptr[s] = NoTrip THEN s ELSE end[ptr[s]]
  BY <1>2
<1>. QED
  BY <1>3, <1>4

LEMMA HeirUnfolds ==
  ASSUME mergedInto \in [Trip -> Trip \cup {NoTrip}], NEW P, NEW t \in Trip,
         \A s \in Trip \cap P : mergedInto[s] \in Trip
  PROVE  /\ t \notin P => Ledger!Heir(P, t) = t
         /\ t \in P => Ledger!Heir(P, t) = Ledger!Heir(P, mergedInto[t])
<1>. DEFINE Walk(f) == f = [s \in Trip |-> IF s \in P THEN f[mergedInto[s]] ELSE s]
            end == CHOOSE f : Walk(f)
<1>1. \E f : Walk(f)
  <2>1. PICK f : IsWalk(f, Trip, P, mergedInto)
    BY WalkExists
  <2>. QED
    BY <2>1 DEF IsWalk
<1>2. Walk(end)
  BY <1>1
<1>3. \A s \in Trip : Ledger!Heir(P, s) = end[s]
  BY DEF Ledger!Heir
<1>. HIDE DEF end
<1>4. \A s \in Trip : end[s] = IF s \in P THEN end[mergedInto[s]] ELSE s
  BY <1>2
<1>. QED
  BY <1>3, <1>4

\* What a chain of merges starts with leads to where it ends.
LEMMA RootOfChain ==
  ASSUME NEW ptr \in [Trip -> Trip \cup {NoTrip}], NEW C \in SUBSET Trip,
         NEW e \in Trip, Chain(C, ptr, e), ptr[e] = NoTrip, NoTrip \notin Trip
  PROVE  Ledger!Root(ptr, FirstOf(C, ptr, e)) = e
<1>1. Ledger!Root(ptr, e) = e
  BY RootUnfolds
<1>2. \A c \in C : Ledger!Root(ptr, c) = Ledger!Root(ptr, ptr[c])
  BY RootUnfolds DEF Chain
<1>. DEFINE D == {c \in C : Ledger!Root(ptr, c) # e}
<1>3. D = {}
  <2>. SUFFICES ASSUME D # {} PROVE FALSE
    OBVIOUS
  <2>1. PICK d \in D : ptr[d] \notin D
    BY DEF Chain
  <2>. QED
    BY <1>1, <1>2, <2>1 DEF Chain
<1>. QED
  BY <1>1, <1>3, FirstOfIsFirst DEF IsFirst

\* The heir of a purged home is the first of what the purge leaves of a chain.
LEMMA HeirOfChain ==
  ASSUME mergedInto \in [Trip -> Trip \cup {NoTrip}], NEW C \in SUBSET Trip,
         NEW e \in Trip, Chain(C, mergedInto, e),
         NEW P, e \notin P, \A s \in Trip \cap P : mergedInto[s] \in Trip,
         \A c \in C : mergedInto[c] \in P => c \in P,
         NEW new, \A c \in C \ P : new[c] = mergedInto[c]
  PROVE  /\ Ledger!Heir(P, FirstOf(C, mergedInto, e)) = FirstOf(C \ P, new, e)
         /\ Chain(C \ P, new, e)
<1>. DEFINE h == FirstOf(C, mergedInto, e)
            k == FirstOf(C \ P, new, e)
<1>1. /\ Chain(C \ P, new, e)
      /\ \A c \in C \cap P : mergedInto[c] \notin P => mergedInto[c] = k
      /\ C # {} /\ h \notin P => h = k
  BY ChainIsCut
<1>2. h \in C \cup {e}
  BY FirstOfIsFirst DEF IsFirst
<1>. HIDE DEF h, k
<1>. DEFINE D == {c \in C \cap P : Ledger!Heir(P, c) # k}
<1>3. D = {}
  <2>. SUFFICES ASSUME D # {} PROVE FALSE
    OBVIOUS
  <2>1. PICK d \in D : mergedInto[d] \notin D
    BY DEF Chain
  <2>2. Ledger!Heir(P, d) = Ledger!Heir(P, mergedInto[d]) /\ mergedInto[d] \in Trip
    BY <2>1, HeirUnfolds
  <2>3. mergedInto[d] \in C \cup {e}
    BY <2>1 DEF Chain
  <2>4. CASE mergedInto[d] \notin P
    BY <1>1, <2>1, <2>2, <2>4, HeirUnfolds
  <2>5. CASE mergedInto[d] \in P
    BY <2>1, <2>2, <2>3, <2>5
  <2>. QED
    BY <2>4, <2>5
<1>4. h \in P => Ledger!Heir(P, h) = k
  BY <1>2, <1>3
<1>5. h \notin P => Ledger!Heir(P, h) = k
  <2>. SUFFICES ASSUME h \notin P PROVE Ledger!Heir(P, h) = k
    OBVIOUS
  <2>1. Ledger!Heir(P, h) = h
    BY <1>2, HeirUnfolds
  <2>2. C = {} => h = k
    BY DEF h, k, FirstOf
  <2>. QED
    BY <1>1, <2>1, <2>2
<1>. QED
  BY <1>1, <1>4, <1>5 DEF h, k

-----------------------------------------------------------------------------
(* The steps *)

\* The claims to an item are a chain of merges that ends in the trip it is in.
ClaimsChain ==
    \A i \in Item : tripOf[i] \in Trip => Chain(Claims(i), mergedInto, tripOf[i])

\* No audit, not even one left behind by a deleted target, names a new item.
NewItems == \A i \in Item, t \in Trip : i \in audit[t].items => tripOf[i] # Unborn

\* What a request has read or captured still holds when it writes.
Prepared(x) ==
    LET r == session[x] IN
    /\ r.op \in {"merge", "captured", "undo"} => {r.src, r.dst} \cap unborn = {}
    /\ r.op = "delete" => mergedInto[r.dst] = NoTrip
    /\ r.op = "captured" =>
           \A i \in Item : /\ tripOf[i] = r.src => i \in r.items
                           /\ i \in r.items => tripOf[i] \in {r.src, Gone}
    /\ r.op = "undo" /\ {r.src, r.dst} \subseteq exists =>
           mergedInto[r.src] = r.dst /\ audit[r.src] = r.audit

AllPrepared == \A x \in Session : Prepared(x)

LedgerInv == ApartInv /\ NoCycles /\ ClaimsChain /\ NewItems /\ AllPrepared

LEMMA LedgerInit == Init => LedgerInv /\ Ledger!Init
<1>. SUFFICES ASSUME Init PROVE LedgerInv /\ Ledger!Init
  OBVIOUS
<1>1. NoCycles /\ ClaimsChain /\ NewItems /\ AllPrepared
  BY SentinelAssumption
  DEF Init, NoCycles, ClaimsChain, NewItems, AllPrepared, Prepared, Merged, NoAudit, Idle
<1>2. Homes = tripOf
  BY SentinelAssumption DEF Init, Homes, HomeOf
<1>. QED
  BY <1>1, <1>2, ApartInit DEF LedgerInv, Init, Ledger!Init

\* Every item is in the trip its home leads to.
LEMMA Placed == LedgerInv => tripOf = Ledger!ShownIn(mergedInto, Homes)
<1>. SUFFICES ASSUME LedgerInv PROVE tripOf = Ledger!ShownIn(mergedInto, Homes)
  OBVIOUS
<1>0. /\ mergedInto \in [Trip -> Trip \cup {NoTrip}]
      /\ tripOf \in [Item -> exists \cup {Unborn, Gone}] /\ exists \subseteq Trip
  BY DEF LedgerInv, ApartInv, TypeInv, TypeOK
<1>1. ASSUME NEW i \in Item
      PROVE  tripOf[i] = IF Homes[i] \in Trip
                         THEN Ledger!Root(mergedInto, Homes[i]) ELSE Homes[i]
  <2>1. CASE tripOf[i] \in Trip
    <3>1. Chain(Claims(i), mergedInto, tripOf[i]) /\ Claims(i) \in SUBSET Trip
      BY <2>1 DEF LedgerInv, ClaimsChain, Claims
    <3>2. Homes[i] = FirstOf(Claims(i), mergedInto, tripOf[i])
      BY <2>1 DEF Homes, HomeOf
    <3>3. Homes[i] \in Trip
      BY <2>1, <3>1, <3>2, FirstOfIsFirst DEF IsFirst
    <3>4. mergedInto[tripOf[i]] = NoTrip
      BY <1>0, <2>1, SentinelAssumption DEF LedgerInv, ApartInv, ShellsAreEmpty, Merged
    <3>. QED
      BY <1>0, <2>1, <3>1, <3>2, <3>3, <3>4, RootOfChain, SentinelAssumption
  <2>2. CASE tripOf[i] \notin Trip
    BY <2>2 DEF Homes, HomeOf
  <2>. QED
    BY <2>1, <2>2
<1>. QED
  BY <1>0, <1>1 DEF Ledger!ShownIn

LEMMA PlacedNext == LedgerInv' => tripOf' = Ledger!ShownIn(mergedInto', Homes')
<1>1. (LedgerInv => tripOf = Ledger!ShownIn(mergedInto, Homes))'
  BY Placed, PTL
<1>. QED
  BY <1>1

\* Facts of LedgerInv that every step reads.
LEMMA LedgerFacts ==
  ASSUME LedgerInv
  PROVE  /\ mergedInto \in [Trip -> exists \cup {NoTrip}]
         /\ audit \in [Trip -> Audit \cup {NoAudit}]
         /\ tripOf \in [Item -> exists \cup {Unborn, Gone}]
         /\ exists \subseteq Trip \ unborn /\ unborn \subseteq Trip
         /\ \A t \in Trip : mergedInto[t] # NoTrip => t \in exists
         /\ \A x \in Session : session[x] \in Request
         /\ \A i \in Item : tripOf[i] \in Trip => mergedInto[tripOf[i]] = NoTrip
         /\ \A i \in Item : Claims(i) \in SUBSET Trip
         /\ NoTrip \notin Trip /\ Unborn \notin Trip /\ Gone \notin Trip /\ Unborn # Gone
<1>. USE DEF LedgerInv, ApartInv
<1>1. \A i \in Item : tripOf[i] \in Trip => mergedInto[tripOf[i]] = NoTrip
  BY SentinelAssumption DEF TypeInv, TypeOK, ShellsAreEmpty, Merged
<1>. QED
  BY <1>1, SentinelAssumption DEF TypeInv, TypeOK, Claims

LEMMA StaysAcyclic ==
  ASSUME NoCycles, \A t \in Trip : Merged(t)' => Merged(t) /\ mergedInto'[t] = mergedInto[t]
  PROVE  NoCycles'
<1>. SUFFICES ASSUME NEW D \in SUBSET {t \in Trip : Merged(t)'}, D # {}
              PROVE  \E t \in D : mergedInto'[t] \notin D
  BY DEF NoCycles
<1>1. D \in SUBSET {t \in Trip : Merged(t)}
  OBVIOUS
<1>. QED
  BY <1>1 DEF NoCycles

LEMMA ChainStays ==
  ASSUME NEW C, NEW ptr, NEW e, Chain(C, ptr, e), NEW new, \A c \in C : new[c] = ptr[c]
  PROVE  Chain(C, new, e) /\ FirstOf(C, new, e) = FirstOf(C, ptr, e)
<1>1. Chain(C, new, e)
  BY DEF Chain, IsFirst
<1>2. \A h : IsFirst(C, ptr, h) => IsFirst(C, new, h)
  BY DEF IsFirst
<1>3. C = {} => FirstOf(C, new, e) = FirstOf(C, ptr, e)
  BY DEF FirstOf
<1>. QED
  BY <1>1, <1>2, <1>3, FirstOfIsFirst

\* An item that stays where it is, with the claims it had, keeps its home.
LEMMA SameHome ==
  ASSUME LedgerInv, NEW i \in Item, tripOf'[i] = tripOf[i], Claims(i)' = Claims(i),
         \A c \in Claims(i) : mergedInto'[c] = mergedInto[c]
  PROVE  /\ HomeOf(i)' = HomeOf(i)
         /\ tripOf'[i] \in Trip => Chain(Claims(i)', mergedInto', tripOf'[i])
<1>1. CASE tripOf[i] \in Trip
  <2>1. Chain(Claims(i), mergedInto, tripOf[i])
    BY <1>1 DEF LedgerInv, ClaimsChain
  <2>2. /\ Chain(Claims(i), mergedInto', tripOf[i])
        /\ FirstOf(Claims(i), mergedInto', tripOf[i])
               = FirstOf(Claims(i), mergedInto, tripOf[i])
    BY <2>1, ChainStays
  <2>3. HomeOf(i)' = FirstOf(Claims(i)', mergedInto', tripOf'[i])
    BY <1>1 DEF HomeOf
  <2>4. HomeOf(i) = FirstOf(Claims(i), mergedInto, tripOf[i])
    BY <1>1 DEF HomeOf
  <2>. QED
    BY <2>2, <2>3, <2>4
<1>2. CASE tripOf[i] \notin Trip
  BY <1>2 DEF HomeOf
<1>. QED
  BY <1>1, <1>2

\* A new item has no claims to it, so that its home is the trip it is put in.
LEMMA NewItemHome ==
  ASSUME LedgerInv, NEW i \in Item, tripOf[i] = Unborn, audit' = audit,
         tripOf'[i] \in Trip
  PROVE  /\ HomeOf(i) = Unborn /\ HomeOf(i)' = tripOf'[i]
         /\ Chain(Claims(i)', mergedInto', tripOf'[i])
<1>1. Claims(i)' = {}
  BY DEF LedgerInv, NewItems, Claims
<1>2. HomeOf(i)' = FirstOf(Claims(i)', mergedInto', tripOf'[i])
  BY DEF HomeOf
<1>3. HomeOf(i) = Unborn
  BY LedgerFacts DEF HomeOf
<1>. QED
  BY <1>1, <1>2, <1>3 DEF FirstOf, Chain

LEMMA GoneHome ==
  ASSUME NEW i \in Item, tripOf'[i] = Gone
  PROVE  HomeOf(i)' = Gone
  BY SentinelAssumption DEF HomeOf

\* Where neither a trip nor an item changes, the ledger stutters.
LEMMA LedgerStutters ==
  ASSUME LedgerInv, UNCHANGED <<unborn, exists, mergedInto, audit, tripOf>>
  PROVE  NoCycles' /\ ClaimsChain' /\ NewItems' /\ UNCHANGED Ledger!vars
<1>1. NoCycles'
  BY StaysAcyclic DEF LedgerInv, Merged
<1>2. \A i \in Item : /\ Claims(i)' = Claims(i) /\ HomeOf(i)' = HomeOf(i)
                      /\ tripOf'[i] \in Trip => Chain(Claims(i)', mergedInto', tripOf'[i])
  <2>1. \A i \in Item : Claims(i)' = Claims(i)
    BY DEF Claims, Merged
  <2>. QED
    BY <2>1, SameHome
<1>3. ClaimsChain' /\ Homes' = Homes
  BY <1>2 DEF ClaimsChain, Homes
<1>. QED
  BY <1>1, <1>3 DEF LedgerInv, NewItems, Ledger!vars

LEMMA CreateRefines ==
  ASSUME LedgerInv, NEW t \in Trip, NEW new \in SUBSET Item,
         t \in unborn, \A i \in new : tripOf[i] = Unborn,
         unborn' = unborn \ {t}, exists' = exists \cup {t},
         mergedInto' = mergedInto, audit' = audit,
         tripOf' = [i \in Item |-> IF i \in new THEN t ELSE tripOf[i]]
  PROVE  NoCycles' /\ ClaimsChain' /\ NewItems' /\ Ledger!Open(t, new)
<1>0. \A s \in Trip : Merged(s)' <=> Merged(s)
  BY LedgerFacts DEF Merged
<1>1. NoCycles'
  BY <1>0, StaysAcyclic DEF LedgerInv
<1>2. ASSUME NEW i \in Item
      PROVE  /\ HomeOf(i)' = IF i \in new THEN t ELSE HomeOf(i)
             /\ tripOf'[i] \in Trip => Chain(Claims(i)', mergedInto', tripOf'[i])
             /\ i \in new => HomeOf(i) = Unborn
  <2>1. CASE i \in new
    BY <2>1, NewItemHome
  <2>2. CASE i \notin new
    <3>1. Claims(i)' = Claims(i)
      BY <1>0 DEF Claims
    <3>. QED
      BY <2>2, <3>1, SameHome
  <2>. QED
    BY <2>1, <2>2
<1>3. ClaimsChain'
  BY <1>2 DEF ClaimsChain
<1>4. NewItems'
  BY LedgerFacts DEF LedgerInv, NewItems
<1>5. Homes' = [i \in Item |-> IF i \in new THEN t ELSE Homes[i]]
  BY <1>2 DEF Homes
<1>6. \A i \in new : Homes[i] = Unborn
  BY <1>2 DEF Homes
<1>. QED
  BY <1>1, <1>3, <1>4, <1>5, <1>6 DEF Ledger!Open

LEMMA AttachRefines ==
  ASSUME LedgerInv, NEW t \in exists, NEW i \in Item, mergedInto[t] = NoTrip,
         tripOf[i] = Unborn, tripOf' = [tripOf EXCEPT ![i] = t],
         UNCHANGED <<unborn, exists, mergedInto, audit>>
  PROVE  NoCycles' /\ ClaimsChain' /\ NewItems' /\ Ledger!File(t, i)
<1>1. NoCycles'
  BY StaysAcyclic DEF LedgerInv, Merged
<1>2. \A j \in Item : tripOf'[j] = IF j = i THEN t ELSE tripOf[j]
  BY LedgerFacts
<1>3. t \in Trip
  BY LedgerFacts
<1>4. ASSUME NEW j \in Item
      PROVE  /\ HomeOf(j)' = IF j = i THEN t ELSE HomeOf(j)
             /\ tripOf'[j] \in Trip => Chain(Claims(j)', mergedInto', tripOf'[j])
             /\ HomeOf(i) = Unborn
  <2>1. Claims(j)' = Claims(j)
    BY DEF Claims, Merged
  <2>. QED
    BY <1>2, <1>3, <2>1, SameHome, NewItemHome
<1>5. ClaimsChain' /\ Homes' = [Homes EXCEPT ![i] = t] /\ Homes[i] = Unborn
  BY <1>4 DEF ClaimsChain, Homes
<1>6. NewItems'
  BY <1>2, <1>3, LedgerFacts DEF LedgerInv, NewItems
<1>. QED
  BY <1>1, <1>5, <1>6 DEF Ledger!File, Ledger!IsRoot

LEMMA DropRefines ==
  ASSUME LedgerInv, NEW i \in Item, tripOf[i] \in Trip,
         tripOf' = [tripOf EXCEPT ![i] = Gone],
         UNCHANGED <<unborn, exists, mergedInto, audit>>
  PROVE  NoCycles' /\ ClaimsChain' /\ NewItems' /\ Ledger!Drop(i)
<1>1. NoCycles'
  BY StaysAcyclic DEF LedgerInv, Merged
<1>2. \A j \in Item : tripOf'[j] = IF j = i THEN Gone ELSE tripOf[j]
  BY LedgerFacts
<1>3. ASSUME NEW j \in Item
      PROVE  /\ HomeOf(j)' = IF j = i THEN Gone ELSE HomeOf(j)
             /\ tripOf'[j] \in Trip => Chain(Claims(j)', mergedInto', tripOf'[j])
  <2>1. Claims(j)' = Claims(j)
    BY DEF Claims, Merged
  <2>. QED
    BY <1>2, <2>1, SameHome, GoneHome, LedgerFacts
<1>4. Homes[i] \in Trip
  BY FirstOfIsFirst, LedgerFacts DEF LedgerInv, ClaimsChain, Homes, HomeOf, IsFirst
<1>5. ClaimsChain' /\ Homes' = [Homes EXCEPT ![i] = Gone]
  BY <1>3 DEF ClaimsChain, Homes
<1>6. NewItems'
  BY <1>2, LedgerFacts DEF LedgerInv, NewItems
<1>. QED
  BY <1>1, <1>4, <1>5, <1>6 DEF Ledger!Drop

LEMMA MergeRefines ==
  ASSUME LedgerInv, NEW s \in exists, NEW t \in exists, s # t,
         mergedInto[s] = NoTrip, mergedInto[t] = NoTrip,
         NEW a \in Audit, \A i \in Item : tripOf[i] = s => i \in a.items,
         \A i \in a.items : tripOf[i] \in {s, Gone},
         tripOf' = MoveAll(s, t), mergedInto' = [mergedInto EXCEPT ![s] = t],
         audit' = [audit EXCEPT ![s] = a], UNCHANGED <<unborn, exists>>
  PROVE  NoCycles' /\ ClaimsChain' /\ NewItems' /\ Ledger!Merge(s, t)
<1>0. s \in Trip /\ t \in Trip /\ a.items \subseteq Item
  BY LedgerFacts DEF Audit
<1>1. /\ \A u \in Trip : Merged(u)' <=> u = s \/ Merged(u)
      /\ \A u \in Trip : mergedInto'[u] = IF u = s THEN t ELSE mergedInto[u]
      /\ \A u \in Trip : audit'[u] = IF u = s THEN a ELSE audit[u]
      /\ ~Merged(s) /\ ~Merged(t)
  BY <1>0, LedgerFacts DEF Merged
<1>2. NoCycles'
  <2>. SUFFICES ASSUME NEW D \in SUBSET {u \in Trip : Merged(u)'}, D # {}
                PROVE  \E u \in D : mergedInto'[u] \notin D
    BY DEF NoCycles
  <2>1. CASE s \in D
    BY <1>0, <1>1, <2>1
  <2>2. CASE s \notin D
    <3>1. D \in SUBSET {u \in Trip : Merged(u)}
      BY <1>1, <2>2
    <3>. QED
      BY <1>1, <2>2, <3>1 DEF LedgerInv, NoCycles
  <2>. QED
    BY <2>1, <2>2
<1>3. \A i \in Item : /\ s \notin Claims(i) /\ t \notin Claims(i)
                      /\ tripOf'[i] = IF tripOf[i] = s THEN t ELSE tripOf[i]
  BY <1>1 DEF Claims, MoveAll
<1>4. ASSUME NEW i \in Item
      PROVE  /\ HomeOf(i)' = HomeOf(i)
             /\ tripOf'[i] \in Trip => Chain(Claims(i)', mergedInto', tripOf'[i])
  <2>1. CASE tripOf[i] = s
    <3>1. Claims(i)' = Claims(i) \cup {s}
      BY <1>0, <1>1, <2>1 DEF Claims
    <3>2. Chain(Claims(i), mergedInto, s)
      BY <1>0, <2>1 DEF LedgerInv, ClaimsChain
    <3>3. (\A c \in Claims(i) : mergedInto'[c] = mergedInto[c]) /\ mergedInto'[s] = t
      BY <1>0, <1>1, <1>3, LedgerFacts
    <3>4. /\ Chain(Claims(i)', mergedInto', t)
          /\ FirstOf(Claims(i)', mergedInto', t) = FirstOf(Claims(i), mergedInto, s)
      <4>1. PICK new : new = mergedInto'
        OBVIOUS
      <4>2. (\A c \in Claims(i) : new[c] = mergedInto[c]) /\ new[s] = t
        BY <3>3, <4>1
      <4>3. /\ Chain(Claims(i)', new, t)
            /\ FirstOf(Claims(i)', new, t) = FirstOf(Claims(i), mergedInto, s)
        BY <1>3, <3>1, <3>2, <4>2, ChainGrows
      <4>. QED
        BY <4>1, <4>3
    <3>5. HomeOf(i) = FirstOf(Claims(i), mergedInto, s)
      BY <1>0, <2>1 DEF HomeOf
    <3>6. HomeOf(i)' = FirstOf(Claims(i)', mergedInto', t)
      BY <1>0, <1>3, <2>1 DEF HomeOf
    <3>. QED
      BY <1>3, <2>1, <3>4, <3>5, <3>6
  <2>2. CASE tripOf[i] \in Trip \ {s}
    <3>1. Claims(i)' = Claims(i)
      BY <1>1, <2>2, LedgerFacts DEF Claims
    <3>2. \A c \in Claims(i) : mergedInto'[c] = mergedInto[c]
      BY <1>1, <1>3, LedgerFacts
    <3>. QED
      BY <1>3, <2>2, <3>1, <3>2, SameHome
  <2>3. CASE tripOf[i] \notin Trip
    BY <1>0, <1>3, <2>3 DEF HomeOf
  <2>. QED
    BY <2>1, <2>2, <2>3
<1>5. ClaimsChain' /\ Homes' = Homes
  BY <1>4 DEF ClaimsChain, Homes
<1>6. NewItems'
  <2>. SUFFICES ASSUME NEW i \in Item, NEW u \in Trip, i \in audit'[u].items
                PROVE  tripOf'[i] # Unborn
    BY DEF NewItems
  <2>1. tripOf[i] # Unborn
    BY <1>0, <1>1, LedgerFacts DEF LedgerInv, NewItems
  <2>. QED
    BY <1>0, <1>3, <2>1, LedgerFacts
<1>. QED
  BY <1>2, <1>5, <1>6 DEF Ledger!Merge, Ledger!IsRoot

LEMMA UndoRefines ==
  ASSUME LedgerInv, NEW r, r.src \in exists, r.dst \in exists, r.dst # r.src,
         mergedInto[r.src] = r.dst, mergedInto[r.dst] = NoTrip,
         audit[r.src] = r.audit, tripOf' = MoveBack(r),
         mergedInto' = [mergedInto EXCEPT ![r.src] = NoTrip],
         audit' = [audit EXCEPT ![r.src] = NoAudit], UNCHANGED <<unborn, exists>>
  PROVE  NoCycles' /\ ClaimsChain' /\ NewItems' /\ Ledger!Undo(r.src)
<1>. DEFINE s == r.src
            t == r.dst
<1>0. s \in Trip /\ t \in Trip
  BY LedgerFacts
<1>1. /\ \A u \in Trip : Merged(u)' <=> u # s /\ Merged(u)
      /\ \A u \in Trip : mergedInto'[u] = IF u = s THEN NoTrip ELSE mergedInto[u]
      /\ \A u \in Trip : audit'[u] = IF u = s THEN NoAudit ELSE audit[u]
      /\ Merged(s) /\ ~Merged(t)
  BY <1>0, LedgerFacts DEF Merged
<1>2. NoCycles'
  BY <1>1, StaysAcyclic DEF LedgerInv
<1>3. \A i \in Item : /\ Claims(i)' = Claims(i) \ {s}
                      /\ tripOf'[i] = IF i \in audit[s].items /\ tripOf[i] = t
                                      THEN s ELSE tripOf[i]
  BY <1>1 DEF Claims, MoveBack
<1>4. ASSUME NEW i \in Item
      PROVE  /\ HomeOf(i)' = HomeOf(i)
             /\ tripOf'[i] \in Trip => Chain(Claims(i)', mergedInto', tripOf'[i])
  <2>1. CASE tripOf[i] \in Trip /\ s \in Claims(i)
    <3>1. Chain(Claims(i), mergedInto, tripOf[i])
      BY <2>1 DEF LedgerInv, ClaimsChain
    <3>2. tripOf[i] = t
      <4>1. t \notin Claims(i)
        BY <1>1 DEF Claims
      <4>. QED
        BY <2>1, <3>1, <4>1 DEF Chain
    <3>3. i \in audit[s].items
      BY <2>1 DEF Claims
    <3>4. tripOf'[i] = s
      BY <1>3, <3>2, <3>3
    <3>5. \A c \in Claims(i)' : mergedInto'[c] = mergedInto[c]
      BY <1>1, <1>3, LedgerFacts
    <3>6. /\ Chain(Claims(i)', mergedInto', s)
          /\ FirstOf(Claims(i)', mergedInto', s) = FirstOf(Claims(i), mergedInto, t)
      <4>. HIDE DEF s, t
      <4>1. mergedInto[s] = t
        BY DEF s, t
      <4>2. PICK new : new = mergedInto'
        OBVIOUS
      <4>3. \A c \in Claims(i)' : new[c] = mergedInto[c]
        BY <3>5, <4>2
      <4>4. /\ Chain(Claims(i)', new, s)
            /\ FirstOf(Claims(i)', new, s) = FirstOf(Claims(i), mergedInto, t)
        BY <1>3, <2>1, <3>1, <3>2, <4>1, <4>3, ChainShrinks
      <4>. QED
        BY <4>2, <4>4
    <3>7. HomeOf(i) = FirstOf(Claims(i), mergedInto, t)
      BY <1>0, <3>2 DEF HomeOf
    <3>8. HomeOf(i)' = FirstOf(Claims(i)', mergedInto', s)
      BY <1>0, <3>4 DEF HomeOf
    <3>. QED
      BY <3>4, <3>6, <3>7, <3>8
  <2>2. CASE tripOf[i] \in Trip /\ s \notin Claims(i)
    <3>1. i \notin audit[s].items
      BY <1>0, <1>1, <2>2 DEF Claims
    <3>2. tripOf'[i] = tripOf[i] /\ Claims(i)' = Claims(i)
      BY <1>3, <2>2, <3>1
    <3>3. \A c \in Claims(i) : mergedInto'[c] = mergedInto[c]
      BY <1>1, <2>2, LedgerFacts
    <3>. QED
      BY <3>2, <3>3, SameHome
  <2>3. CASE tripOf[i] \notin Trip
    BY <1>0, <1>3, <2>3 DEF HomeOf
  <2>. QED
    BY <2>1, <2>2, <2>3
<1>5. ClaimsChain' /\ Homes' = Homes
  BY <1>4 DEF ClaimsChain, Homes
<1>6. NewItems'
  <2>. SUFFICES ASSUME NEW i \in Item, NEW u \in Trip, i \in audit'[u].items
                PROVE  tripOf'[i] # Unborn
    BY DEF NewItems
  <2>1. tripOf[i] # Unborn
    BY <1>1 DEF LedgerInv, NewItems, NoAudit
  <2>. QED
    BY <1>0, <1>3, <2>1, LedgerFacts
<1>. QED
  BY <1>2, <1>5, <1>6, LedgerFacts DEF Ledger!Undo, Ledger!IsRoot

\* Deleting trips takes their items, and cuts the chains of those that stay.
LEMMA DeleteRowsRefines ==
  ASSUME LedgerInv, NEW P \in SUBSET exists, DeleteRows(P),
         \A i \in Item : tripOf[i] \in Trip \ P =>
             \A c \in Claims(i) : mergedInto[c] \in P => c \in P
  PROVE  /\ NoCycles' /\ ClaimsChain' /\ NewItems'
         /\ \A i \in Item : tripOf[i] \in P => Homes'[i] = Gone
         /\ \A i \in Item : tripOf[i] \notin Trip => Homes'[i] = Homes[i]
         /\ \A i \in Item : tripOf[i] \in Trip \ P =>
                /\ Homes[i] = FirstOf(Claims(i), mergedInto, tripOf[i])
                /\ Homes'[i] = FirstOf(Claims(i) \ P, mergedInto', tripOf[i])
                /\ \A c \in Claims(i) \ P : mergedInto'[c] = mergedInto[c]
<1>1. /\ \A u \in Trip : Merged(u)' <=> Merged(u) /\ u \notin P /\ mergedInto[u] \notin P
      /\ \A u \in Trip : Merged(u)' => mergedInto'[u] = mergedInto[u]
      /\ \A u \in Trip : audit'[u] = IF u \in P THEN NoAudit ELSE audit[u]
      /\ \A i \in Item : tripOf'[i] = IF tripOf[i] \in P THEN Gone ELSE tripOf[i]
      /\ P \subseteq Trip
  BY LedgerFacts DEF DeleteRows, Merged
<1>2. NoCycles'
  BY <1>1, StaysAcyclic DEF LedgerInv
<1>3. NewItems'
  BY <1>1, LedgerFacts DEF LedgerInv, NewItems, NoAudit
<1>4. ASSUME NEW i \in Item, tripOf[i] \in Trip \ P
      PROVE  /\ Chain(Claims(i)', mergedInto', tripOf[i])
             /\ HomeOf(i) = FirstOf(Claims(i), mergedInto, tripOf[i])
             /\ HomeOf(i)' = FirstOf(Claims(i) \ P, mergedInto', tripOf[i])
             /\ \A c \in Claims(i) \ P : mergedInto'[c] = mergedInto[c]
  <2>1. Chain(Claims(i), mergedInto, tripOf[i])
    BY <1>4 DEF LedgerInv, ClaimsChain
  <2>2. \A c \in Claims(i) : mergedInto[c] \in P => c \in P
    BY <1>4
  <2>3. Claims(i)' = Claims(i) \ P
    <3>1. ASSUME NEW c \in Claims(i) \ P  PROVE c \in Claims(i)'
      BY <1>1, <2>2, <3>1 DEF Claims
    <3>2. ASSUME NEW c \in Claims(i)'  PROVE c \in Claims(i) \ P
      BY <1>1, <3>2 DEF Claims
    <3>. QED
      BY <3>1, <3>2
  <2>4. \A c \in Claims(i) \ P : mergedInto'[c] = mergedInto[c]
    <3>1. \A c \in Claims(i)' : c \in Trip /\ Merged(c)'
      BY DEF Claims
    <3>. QED
      BY <1>1, <2>3, <3>1
  <2>5. Chain(Claims(i) \ P, mergedInto', tripOf[i])
    BY <1>4, <2>1, <2>2, <2>4, ChainIsCut
  <2>6. HomeOf(i) = FirstOf(Claims(i), mergedInto, tripOf[i])
    BY <1>4 DEF HomeOf
  <2>7. HomeOf(i)' = FirstOf(Claims(i)', mergedInto', tripOf[i])
    BY <1>1, <1>4 DEF HomeOf
  <2>. QED
    BY <2>3, <2>4, <2>5, <2>6, <2>7
<1>5. ClaimsChain'
  BY <1>1, <1>4, LedgerFacts DEF ClaimsChain
<1>6. \A i \in Item : tripOf[i] \in P => HomeOf(i)' = Gone
  BY <1>1, GoneHome
<1>7. \A i \in Item : tripOf[i] \notin Trip => HomeOf(i)' = HomeOf(i)
  BY <1>1 DEF HomeOf
<1>. QED
  BY <1>2, <1>3, <1>4, <1>5, <1>6, <1>7 DEF Homes

LEMMA RemoveRefines ==
  ASSUME LedgerInv, NEW t \in exists, mergedInto[t] = NoTrip, DeleteRows({t}),
         UNCHANGED unborn
  PROVE  NoCycles' /\ ClaimsChain' /\ NewItems' /\ Ledger!Remove(t)
<1>0. \A i \in Item : t \notin Claims(i)
  BY DEF Claims, Merged
<1>1. ASSUME NEW i \in Item, tripOf[i] \in Trip \ {t}, NEW c \in Claims(i)
      PROVE  mergedInto[c] # t
  BY <1>0, <1>1 DEF LedgerInv, ClaimsChain, Chain
<1>2. /\ NoCycles' /\ ClaimsChain' /\ NewItems'
      /\ \A i \in Item : tripOf[i] = t => Homes'[i] = Gone
      /\ \A i \in Item : tripOf[i] \notin Trip => Homes'[i] = Homes[i]
      /\ \A i \in Item : tripOf[i] \in Trip \ {t} =>
             /\ Homes[i] = FirstOf(Claims(i), mergedInto, tripOf[i])
             /\ Homes'[i] = FirstOf(Claims(i) \ {t}, mergedInto', tripOf[i])
             /\ \A c \in Claims(i) \ {t} : mergedInto'[c] = mergedInto[c]
  BY <1>1, DeleteRowsRefines
<1>3. ASSUME NEW i \in Item, tripOf[i] \in Trip \ {t}  PROVE Homes'[i] = Homes[i]
  <2>1. Claims(i) \ {t} = Claims(i)
    BY <1>0
  <2>2. Chain(Claims(i), mergedInto, tripOf[i])
    BY <1>3 DEF LedgerInv, ClaimsChain
  <2>3. FirstOf(Claims(i), mergedInto', tripOf[i]) = FirstOf(Claims(i), mergedInto, tripOf[i])
    BY <1>2, <1>3, <2>1, <2>2, ChainStays
  <2>. QED
    BY <1>2, <1>3, <2>1, <2>3
<1>4. t \in Trip
  BY LedgerFacts
<1>5. Homes' = [i \in Item |-> IF tripOf[i] = t THEN Gone ELSE Homes[i]]
  <2>1. \A i \in Item : Homes'[i] = IF tripOf[i] = t THEN Gone ELSE Homes[i]
    BY <1>2, <1>3, <1>4
  <2>. QED
    BY <2>1 DEF Homes
<1>6. /\ exists' = exists \ {t}
      /\ mergedInto' = [s \in Trip |-> IF mergedInto[s] = t THEN NoTrip ELSE mergedInto[s]]
  BY DEF DeleteRows
<1>. QED
  BY <1>2, <1>5, <1>6 DEF Ledger!Remove, Ledger!IsRoot

\* Chains are ordered by age, so that the purge takes with a target its sources.
LEMMA PurgeIsClosed ==
  ASSUME LedgerInv, NEW s \in Trip, Expired(mergedInto[s])
  PROVE  Expired(s)
<1>1. mergedInto[s] \in Trip /\ Merged(mergedInto[s]) /\ Merged(s)
  BY LedgerFacts DEF Expired, Merged
<1>2. mergedAge[s] \in Age /\ mergedAge[mergedInto[s]] \in Age
  BY <1>1 DEF LedgerInv, ApartInv, TypeInv, MergeColumns, Merged
<1>3. mergedAge[mergedInto[s]] <= mergedAge[s]
  BY <1>1 DEF LedgerInv, ApartInv, ChainsOrdered
<1>. QED
  BY <1>1, <1>2, <1>3, WindowAssumption DEF Expired, Age

LEMMA SweepRefines ==
  ASSUME LedgerInv, Sweep
  PROVE  /\ NoCycles' /\ ClaimsChain' /\ NewItems'
         /\ Ledger!Purge({t \in Trip : Expired(t)})
<1>. DEFINE P == {t \in Trip : Expired(t)}
<1>0. /\ P \in SUBSET exists /\ P # {} /\ DeleteRows(P) /\ unborn' = unborn
      /\ \A t \in P : t \in Trip /\ mergedInto[t] \in Trip
  BY LedgerFacts DEF Sweep, Expired, Merged
<1>1. \A s \in Trip : mergedInto[s] \in P => s \in P
  BY PurgeIsClosed
<1>2. \A i \in Item : tripOf[i] \notin P
  BY LedgerFacts DEF Expired, Merged
<1>. HIDE DEF P
<1>3. /\ NoCycles' /\ ClaimsChain' /\ NewItems'
      /\ \A i \in Item : tripOf[i] \notin Trip => Homes'[i] = Homes[i]
      /\ \A i \in Item : tripOf[i] \in Trip \ P =>
             /\ Homes[i] = FirstOf(Claims(i), mergedInto, tripOf[i])
             /\ Homes'[i] = FirstOf(Claims(i) \ P, mergedInto', tripOf[i])
             /\ \A c \in Claims(i) \ P : mergedInto'[c] = mergedInto[c]
  BY <1>0, <1>1, DeleteRowsRefines, LedgerFacts
<1>4. ASSUME NEW i \in Item
      PROVE  Homes'[i] = IF Homes[i] \in Trip THEN Ledger!Heir(P, Homes[i]) ELSE Homes[i]
  <2>1. CASE tripOf[i] \in Trip
    <3>1. Chain(Claims(i), mergedInto, tripOf[i]) /\ Claims(i) \in SUBSET Trip
      BY <2>1, LedgerFacts DEF LedgerInv, ClaimsChain
    <3>2. /\ Homes[i] = FirstOf(Claims(i), mergedInto, tripOf[i])
          /\ Homes'[i] = FirstOf(Claims(i) \ P, mergedInto', tripOf[i])
          /\ \A c \in Claims(i) \ P : mergedInto'[c] = mergedInto[c]
      BY <1>2, <1>3, <2>1
    <3>3. Homes[i] \in Trip
      BY <2>1, <3>1, <3>2, FirstOfIsFirst DEF IsFirst
    <3>4. /\ mergedInto \in [Trip -> Trip \cup {NoTrip}]
          /\ \A s \in Trip \cap P : mergedInto[s] \in Trip
          /\ \A c \in Claims(i) : mergedInto[c] \in P => c \in P
      BY <1>0, <1>1, <3>1, LedgerFacts
    <3>5. Ledger!Heir(P, FirstOf(Claims(i), mergedInto, tripOf[i]))
              = FirstOf(Claims(i) \ P, mergedInto', tripOf[i])
      BY <1>2, <2>1, <3>1, <3>2, <3>4, HeirOfChain
    <3>. QED
      BY <3>2, <3>3, <3>5
  <2>2. CASE tripOf[i] \notin Trip
    <3>1. Homes[i] = tripOf[i]
      BY <2>2 DEF Homes, HomeOf
    <3>. QED
      BY <1>3, <2>2, <3>1
  <2>. QED
    BY <2>1, <2>2
<1>5. Homes' = [i \in Item |->
                  IF Homes[i] \in Trip THEN Ledger!Heir(P, Homes[i]) ELSE Homes[i]]
  BY <1>4 DEF Homes
<1>6. /\ exists' = exists \ P
      /\ mergedInto' = [s \in Trip |-> IF s \in P THEN NoTrip ELSE mergedInto[s]]
  BY <1>0, <1>1 DEF DeleteRows
<1>7. /\ \A t \in P : t \in exists /\ mergedInto[t] # NoTrip
      /\ \A s \in exists \ P : mergedInto[s] \notin P
  BY <1>0, <1>1, LedgerFacts
<1>. QED
  BY <1>0, <1>3, <1>5, <1>6, <1>7 DEF Ledger!Purge, P

LEMMA IdleIsPrepared ==
  ASSUME NEW x, session'[x] = Idle
  PROVE  Prepared(x)'
<1>1. session'[x].op = "idle"
  BY DEF Idle
<1>. QED
  BY <1>1 DEF Prepared

\* A step that moves the trips of M, and items between trips of U, leaves a
\* request prepared that uses none of M and moves none of U.
LEMMA StaysPrepared ==
  ASSUME LedgerInv, NEW y \in Session, session'[y] = session[y],
         NEW M, M \cap Used(y) = {}, NEW U \in SUBSET Trip, U \cap Moved(y) = {},
         unborn' \subseteq unborn, exists' \subseteq exists \cup unborn,
         \A t \in Trip \ M : mergedInto'[t] \in {mergedInto[t], NoTrip},
         \A t \in (exists \cap exists') \ M :
             /\ audit'[t] = audit[t]
             /\ mergedInto'[t] = mergedInto[t] \/ mergedInto[t] \notin exists',
         \A i \in Item :
             \/ tripOf'[i] \in {tripOf[i], Gone}
             \/ tripOf[i] \in U \cup {Unborn} /\ tripOf'[i] \in U \cup unborn
  PROVE  Prepared(y)'
<1>. DEFINE r == session[y]
<1>0. r \in Request /\ Prepared(y) /\ session'[y] = r
  BY LedgerFacts DEF LedgerInv, AllPrepared
<1>1. /\ r.op = "delete" => r.dst \in Trip \ M
      /\ r.op \in {"merge", "captured", "undo"} =>
             r.src \in Trip \ (M \cup U) /\ r.dst \in Trip \ M
  <2>1. CASE r.op = "delete"
    <3>1. r.dst \in Used(y)
      BY <2>1 DEF Used
    <3>. QED
      BY <1>0, <2>1, <3>1, RequestFields DEF Idle
  <2>2. CASE r.op \in {"merge", "captured", "undo"}
    <3>1. r.dst \in Used(y) /\ r.src \in Used(y) /\ r.src \in Moved(y)
      BY <2>2 DEF Used, Moved
    <3>2. r.dst \in Trip /\ r.src \in Trip /\ r.op # "delete"
      BY <1>0, <2>2, RequestFields DEF Idle
    <3>. QED
      BY <3>1, <3>2
  <2>. QED
    BY <2>1, <2>2
<1>. HIDE DEF r
<1>2. /\ r.op \in {"merge", "captured", "undo"} => {r.src, r.dst} \cap unborn = {}
      /\ r.op = "delete" => mergedInto[r.dst] = NoTrip
      /\ r.op = "captured" =>
             \A i \in Item : /\ tripOf[i] = r.src => i \in r.items
                             /\ i \in r.items => tripOf[i] \in {r.src, Gone}
      /\ r.op = "undo" /\ {r.src, r.dst} \subseteq exists =>
             mergedInto[r.src] = r.dst /\ audit[r.src] = r.audit
  BY <1>0 DEF Prepared, r
<1>3. r.op = "captured" =>
          \A i \in Item : /\ tripOf'[i] = r.src => i \in r.items
                          /\ i \in r.items => tripOf'[i] \in {r.src, Gone}
  BY <1>1, <1>2, LedgerFacts
<1>4. r.op = "undo" /\ {r.src, r.dst} \subseteq exists' =>
          mergedInto'[r.src] = r.dst /\ audit'[r.src] = r.audit
  <2>. SUFFICES ASSUME r.op = "undo", r.src \in exists', r.dst \in exists'
                PROVE  mergedInto'[r.src] = r.dst /\ audit'[r.src] = r.audit
    OBVIOUS
  <2>1. r.src \in (exists \cap exists') \ M /\ r.dst \in exists
    BY <1>1, <1>2
  <2>. QED
    BY <1>2, <2>1
<1>5. r.op = "delete" => mergedInto'[r.dst] = NoTrip
  BY <1>1, <1>2
<1>. QED
  BY <1>0, <1>2, <1>3, <1>4, <1>5 DEF Prepared

\* So do the clock, the purge and what is done in one go.
LEMMA AllStayPrepared ==
  ASSUME LedgerInv, session' = session,
         unborn' \subseteq unborn, exists' \subseteq exists \cup unborn,
         \A t \in Trip : mergedInto'[t] \in {mergedInto[t], NoTrip},
         \A t \in exists \cap exists' :
             /\ audit'[t] = audit[t]
             /\ mergedInto'[t] = mergedInto[t] \/ mergedInto[t] \notin exists',
         \A i \in Item : \/ tripOf'[i] \in {tripOf[i], Gone}
                         \/ tripOf[i] = Unborn /\ tripOf'[i] \in unborn
  PROVE  AllPrepared'
<1>1. ASSUME NEW y \in Session  PROVE Prepared(y)'
  <2>. DEFINE M == {}
              U == {}
  <2>1. M \cap Used(y) = {} /\ U \in SUBSET Trip /\ U \cap Moved(y) = {}
    OBVIOUS
  <2>2. /\ \A t \in Trip \ M : mergedInto'[t] \in {mergedInto[t], NoTrip}
        /\ \A t \in (exists \cap exists') \ M :
               /\ audit'[t] = audit[t]
               /\ mergedInto'[t] = mergedInto[t] \/ mergedInto[t] \notin exists'
        /\ \A i \in Item :
               \/ tripOf'[i] \in {tripOf[i], Gone}
               \/ tripOf[i] \in U \cup {Unborn} /\ tripOf'[i] \in U \cup unborn
    OBVIOUS
  <2>. HIDE DEF M, U
  <2>. QED
    BY <2>1, <2>2, StaysPrepared
<1>. QED
  BY <1>1 DEF AllPrepared

\* And so does what another request does to the trips it uses.
LEMMA OthersPrepared ==
  ASSUME LedgerInv, NEW x \in Session, NEW q, session' = [session EXCEPT ![x] = q],
         Prepared(x)', Used(x) \subseteq Trip,
         unborn' = unborn, exists' \subseteq exists,
         \A t \in Trip \ Moved(x) : mergedInto'[t] \in {mergedInto[t], NoTrip},
         \A t \in (exists \cap exists') \ Moved(x) :
             /\ audit'[t] = audit[t]
             /\ mergedInto'[t] = mergedInto[t] \/ mergedInto[t] \notin exists',
         \A i \in Item : \/ tripOf'[i] \in {tripOf[i], Gone}
                         \/ tripOf[i] \in Used(x) \cup {Unborn} /\ tripOf'[i] \in Used(x)
  PROVE  AllPrepared'
<1>1. ASSUME NEW y \in Session, y # x  PROVE Prepared(y)'
  <2>1. session'[y] = session[y]
    BY <1>1, LedgerFacts DEF LedgerInv, ApartInv, TypeInv, TypeOK
  <2>2. Moved(x) \cap Used(y) = {} /\ Used(x) \cap Moved(y) = {}
    BY <1>1 DEF LedgerInv, ApartInv, Apart
  <2>3. Used(x) \in SUBSET Trip
    OBVIOUS
  <2>. QED
    BY <2>1, <2>2, <2>3, StaysPrepared
<1>. QED
  BY <1>1 DEF AllPrepared

\* The part of LedgerInv that ApartStep does not give.
Chained == NoCycles /\ ClaimsChain /\ NewItems

\* A request that writes finishes; what it was told is what it does.
LEMMA RespondRefines ==
  ASSUME LedgerInv, NEW x \in Session, Respond(x)
  PROVE  Chained' /\ AllPrepared' /\ (Ledger!Step \/ UNCHANGED Ledger!vars)
<1>. DEFINE r == session[x]
            Goal == Chained' /\ AllPrepared' /\ (Ledger!Step \/ UNCHANGED Ledger!vars)
<1>0. /\ r \in Request /\ Prepared(x) /\ Undisturbed(x)
      /\ \A q : session' = [session EXCEPT ![x] = q] => session'[x] = q
  BY LedgerFacts DEF LedgerInv, ApartInv, AllUndisturbed, AllPrepared, TypeInv, TypeOK
<1>a. Used(x) \subseteq Trip
  BY <1>0, RequestFields DEF Used, Moved, Idle
<1>1. ASSUME NEW q, session' = [session EXCEPT ![x] = q],
             UNCHANGED <<trips, tripOf>>, Prepared(x)'
      PROVE  Goal
  <2>1. AllPrepared'
    BY <1>1, <1>a, OthersPrepared DEF trips
  <2>. QED
    BY <1>1, <2>1, LedgerStutters DEF trips, Chained
<1>2. ASSUME Finish(x), unborn' = unborn, exists' \subseteq exists,
             \A t \in Trip \ Moved(x) : mergedInto'[t] \in {mergedInto[t], NoTrip},
             \A t \in (exists \cap exists') \ Moved(x) :
                 /\ audit'[t] = audit[t]
                 /\ mergedInto'[t] = mergedInto[t] \/ mergedInto[t] \notin exists',
             \A i \in Item :
                 \/ tripOf'[i] \in {tripOf[i], Gone}
                 \/ tripOf[i] \in Used(x) \cup {Unborn} /\ tripOf'[i] \in Used(x)
      PROVE  AllPrepared'
  <2>1. session' = [session EXCEPT ![x] = Idle]
    BY <1>2 DEF Finish
  <2>2. Prepared(x)'
    BY <1>0, <2>1, IdleIsPrepared
  <2>. QED
    BY <1>2, <1>a, <2>1, <2>2, OthersPrepared
<1>3. ASSUME NEW t \in Trip, NEW q \in Span, LoadAttach(x, t, q) \/ LoadEdit(x, t, q)
      PROVE  Goal
  <2>. DEFINE w == session'[x]
  <2>1. /\ session' = [session EXCEPT ![x] = w] /\ UNCHANGED <<trips, tripOf>>
        /\ w.op \in {"attach", "edit"}
    BY <1>0, <1>3 DEF LoadAttach, LoadEdit, Start
  <2>2. Prepared(x)'
    BY <1>0, <2>1 DEF Prepared
  <2>. QED
    BY <1>1, <2>1, <2>2
<1>4. ASSUME NEW t \in Trip, LoadDelete(x, t)  PROVE Goal
  <2>. DEFINE q == [op |-> "delete", dst |-> t]
  <2>1. /\ session' = [session EXCEPT ![x] = q] /\ session'[x] = q
        /\ UNCHANGED <<trips, tripOf>> /\ mergedInto'[t] = NoTrip
    BY <1>0, <1>4 DEF LoadDelete, Start, Reachable, Live, trips
  <2>2. Prepared(x)'
    BY <1>0, <2>1 DEF Prepared
  <2>. QED
    BY <1>1, <2>1, <2>2
<1>5. ASSUME NEW s \in Trip, NEW t \in Trip, LoadMerge(x, s, t)  PROVE Goal
  <2>. DEFINE q == [op |-> "merge", src |-> s, dst |-> t, loaded |-> span[t],
                    want |-> Hull(span[t], span[s])]
  <2>1. s \in exists /\ t \in exists /\ Start(x, q)
    BY <1>5 DEF LoadMerge, MayMerge, Live
  <2>2. q.op = "merge" /\ q.src = s /\ q.dst = t
    OBVIOUS
  <2>. HIDE DEF q
  <2>3. session'[x] = q /\ session' = [session EXCEPT ![x] = q] /\ UNCHANGED <<trips, tripOf>>
    BY <1>0, <2>1 DEF Start
  <2>4. {s, t} \cap unborn' = {}
    BY <2>1, <2>3, LedgerFacts DEF trips
  <2>5. Prepared(x)'
    BY <1>0, <2>2, <2>3, <2>4 DEF Prepared
  <2>. QED
    BY <1>1, <2>3, <2>5
<1>6. ASSUME NEW s \in Trip, NEW t \in Trip, LoadUndo(x, s, t)  PROVE Goal
  <2>. DEFINE q == [op |-> "undo", src |-> s, dst |-> t, loaded |-> span[t],
                    want |-> audit[s].pre, audit |-> audit[s]]
  <2>1. s \in exists /\ t \in exists /\ mergedInto[s] = t /\ Start(x, q)
    BY <1>6 DEF LoadUndo, MayUndo, Merged, Live
  <2>2. q.op = "undo" /\ q.src = s /\ q.dst = t /\ q.audit = audit[s]
    OBVIOUS
  <2>. HIDE DEF q
  <2>3. session'[x] = q /\ session' = [session EXCEPT ![x] = q] /\ UNCHANGED <<trips, tripOf>>
    BY <1>0, <2>1 DEF Start
  <2>4. {s, t} \cap unborn' = {} /\ mergedInto'[s] = t /\ audit'[s] = audit[s]
    BY <2>1, <2>3, LedgerFacts DEF trips
  <2>5. Prepared(x)'
    BY <1>0, <2>2, <2>3, <2>4 DEF Prepared
  <2>. QED
    BY <1>1, <2>3, <2>5
<1>7. ASSUME NEW i \in Item, ApplyAttach(x, i)  PROVE Goal
  <2>1. r.dst \in exists /\ mergedInto[r.dst] = NoTrip
    BY <1>0, <1>7 DEF ApplyAttach, Commits, Undisturbed
  <2>2. Chained' /\ Ledger!File(r.dst, i)
    BY <1>7, <2>1, AttachRefines DEF ApplyAttach, Chained
  <2>3. r.dst \in Used(x)
    BY <1>7 DEF ApplyAttach, Used
  <2>4. \A j \in Item : \/ tripOf'[j] = tripOf[j]
                        \/ tripOf[j] = Unborn /\ tripOf'[j] = r.dst
    BY <1>7, LedgerFacts DEF ApplyAttach
  <2>5. AllPrepared'
    BY <1>2, <1>7, <2>3, <2>4 DEF ApplyAttach
  <2>. QED
    BY <2>1, <2>2, <2>5, LedgerFacts DEF Ledger!Step
<1>8. CASE CaptureMerge(x)
  <2>1. r.src \in Trip /\ {r.src, r.dst} \cap unborn = {}
    BY <1>0, <1>8, RequestFields DEF CaptureMerge, Prepared, Idle
  <2>. DEFINE q == [op |-> "captured", src |-> r.src, dst |-> r.dst,
                    loaded |-> r.loaded, want |-> r.want,
                    items |-> {i \in Item : tripOf[i] = r.src},
                    added |-> r.src \in travelled /\ r.dst \notin travelled]
  <2>2. /\ q.op = "captured" /\ q.src = r.src /\ q.dst = r.dst
        /\ q.items = {i \in Item : tripOf[i] = r.src}
    OBVIOUS
  <2>3. session' = [session EXCEPT ![x] = q] /\ UNCHANGED <<trips, tripOf>>
    BY <1>8 DEF CaptureMerge
  <2>. HIDE DEF q
  <2>4. Prepared(x)'
    BY <1>0, <2>1, <2>2, <2>3 DEF Prepared, trips
  <2>. QED
    BY <1>1, <2>3, <2>4
<1>9. CASE ApplyEdit(x)
  <2>1. UNCHANGED <<unborn, exists, mergedInto, audit, tripOf>> /\ Finish(x)
    BY <1>9 DEF ApplyEdit
  <2>2. AllPrepared'
    BY <1>2, <2>1
  <2>. QED
    BY <2>1, <2>2, LedgerStutters DEF Chained
<1>10. CASE ApplyDelete(x)
  <2>1. mergedInto[r.dst] = NoTrip /\ DeleteRows({r.dst} \cap exists) /\ unborn' = unborn
    BY <1>0, <1>10 DEF ApplyDelete, Prepared
  <2>a. AllPrepared'
    <3>1. /\ \A t \in Trip : mergedInto'[t] \in {mergedInto[t], NoTrip}
          /\ \A t \in exists \cap exists' :
                 /\ audit'[t] = audit[t]
                 /\ mergedInto'[t] = mergedInto[t] \/ mergedInto[t] \notin exists'
          /\ \A i \in Item : tripOf'[i] \in {tripOf[i], Gone}
          /\ exists' \subseteq exists
      BY <2>1, LedgerFacts DEF DeleteRows
    <3>. QED
      BY <1>2, <1>10, <2>1, <3>1 DEF ApplyDelete
  <2>2. CASE r.dst \in exists
    <3>1. {r.dst} \cap exists = {r.dst} /\ r.dst \in Trip
      BY <2>2, LedgerFacts
    <3>2. Chained' /\ Ledger!Remove(r.dst)
      BY <2>1, <2>2, <3>1, RemoveRefines DEF Chained
    <3>. QED
      BY <2>a, <3>1, <3>2 DEF Ledger!Step
  <2>3. CASE r.dst \notin exists
    <3>1. {r.dst} \cap exists = {}
      BY <2>3
    <3>2. UNCHANGED <<exists, mergedInto, audit, tripOf>>
      BY <2>1, <3>1, LedgerFacts DEF DeleteRows
    <3>. QED
      BY <2>a, <2>1, <3>2, LedgerStutters DEF Chained
  <2>. QED
    BY <2>2, <2>3
<1>11. CASE ApplyMerge(x)
  <2>1. /\ r.src \in exists /\ r.dst \in exists /\ r.src # r.dst
        /\ mergedInto[r.src] = NoTrip /\ mergedInto[r.dst] = NoTrip
    BY <1>0, <1>11 DEF ApplyMerge, Commits, Undisturbed
  <2>2. /\ \A i \in Item : tripOf[i] = r.src => i \in r.items
        /\ \A i \in Item : i \in r.items => tripOf[i] \in {r.src, Gone}
    BY <1>0, <1>11 DEF ApplyMerge, Prepared
  <2>. DEFINE a == [items |-> r.items, added |-> r.added, pre |-> r.loaded]
  <2>3. a \in Audit /\ a.items = r.items /\ r.items \subseteq Item
    BY <1>0, <1>11, RequestFields DEF ApplyMerge, Audit, Idle
  <2>4. /\ tripOf' = MoveAll(r.src, r.dst)
        /\ mergedInto' = [mergedInto EXCEPT ![r.src] = r.dst]
        /\ audit' = [audit EXCEPT ![r.src] = a] /\ UNCHANGED <<unborn, exists>>
    BY <1>11 DEF ApplyMerge
  <2>. HIDE DEF a
  <2>5. Chained' /\ Ledger!Merge(r.src, r.dst)
    BY <2>1, <2>2, <2>3, <2>4, MergeRefines DEF Chained
  <2>6. r.src \in Moved(x) /\ {r.src, r.dst} \subseteq Used(x)
    BY <1>11 DEF ApplyMerge, Moved, Used
  <2>7. AllPrepared'
    <3>1. /\ \A t \in Trip \ Moved(x) : mergedInto'[t] = mergedInto[t] /\ audit'[t] = audit[t]
          /\ \A i \in Item : \/ tripOf'[i] = tripOf[i]
                             \/ tripOf[i] \in Used(x) /\ tripOf'[i] \in Used(x)
          /\ UNCHANGED <<unborn, exists>> /\ exists \subseteq Trip
      BY <1>11, <2>6, LedgerFacts DEF ApplyMerge, MoveAll
    <3>. QED
      BY <1>2, <1>11, <3>1 DEF ApplyMerge
  <2>. QED
    BY <2>1, <2>5, <2>7, LedgerFacts DEF Ledger!Step
<1>12. CASE ApplyUndo(x)
  <2>1. /\ r.src \in exists /\ r.dst \in exists
        /\ mergedInto[r.src] = r.dst /\ mergedInto[r.dst] = NoTrip
        /\ audit[r.src] = r.audit
    BY <1>0, <1>12 DEF ApplyUndo, Commits, Undisturbed, Prepared
  <2>2. r.dst # r.src
    BY <2>1, LedgerFacts
  <2>3. Chained' /\ Ledger!Undo(r.src)
    BY <1>12, <2>1, <2>2, UndoRefines DEF ApplyUndo, Chained
  <2>4. r.src \in Moved(x) /\ {r.src, r.dst} \subseteq Used(x)
    BY <1>12 DEF ApplyUndo, Moved, Used
  <2>5. AllPrepared'
    <3>1. /\ \A t \in Trip \ Moved(x) : mergedInto'[t] = mergedInto[t] /\ audit'[t] = audit[t]
          /\ \A i \in Item : \/ tripOf'[i] = tripOf[i]
                             \/ tripOf[i] \in Used(x) /\ tripOf'[i] \in Used(x)
          /\ UNCHANGED <<unborn, exists>> /\ exists \subseteq Trip
      BY <1>12, <2>4, LedgerFacts DEF ApplyUndo, MoveBack
    <3>. QED
      BY <1>2, <1>12, <3>1 DEF ApplyUndo
  <2>. QED
    BY <2>1, <2>3, <2>5, LedgerFacts DEF Ledger!Step
<1>13. CASE Rollback(x)
  <2>1. session' = [session EXCEPT ![x] = Idle] /\ UNCHANGED <<trips, tripOf>>
    BY <1>13 DEF Rollback, Finish
  <2>2. Prepared(x)'
    BY <1>0, <2>1, IdleIsPrepared
  <2>. QED
    BY <1>1, <2>1, <2>2
<1>. QED
  BY <1>3, <1>4, <1>5, <1>6, <1>7, <1>8, <1>9, <1>10, <1>11, <1>12, <1>13 DEF Respond

LEMMA NextRefines ==
  ASSUME LedgerInv, [Next]_vars
  PROVE  Chained' /\ AllPrepared' /\ (Ledger!Step \/ UNCHANGED Ledger!vars)
<1>. DEFINE Goal == Chained' /\ AllPrepared' /\ (Ledger!Step \/ UNCHANGED Ledger!vars)
<1>1. ASSUME NEW t \in Trip, NEW p \in Span, CreateTrip(t, p)  PROVE Goal
  <2>1. tripOf' = [i \in Item |-> IF i \in {} THEN t ELSE tripOf[i]]
    BY <1>1, LedgerFacts DEF CreateTrip
  <2>2. Chained' /\ Ledger!Open(t, {})
    BY <1>1, <2>1, CreateRefines DEF CreateTrip, Chained
  <2>3. AllPrepared'
    BY <1>1, AllStayPrepared, LedgerFacts DEF CreateTrip
  <2>. QED
    BY <2>2, <2>3 DEF Ledger!Step
<1>2. ASSUME NEW t \in Trip, NEW p \in Span, NEW i \in Item, CreateTripWithItem(t, p, i)
      PROVE  Goal
  <2>1. tripOf' = [j \in Item |-> IF j \in {i} THEN t ELSE tripOf[j]]
    BY <1>2, LedgerFacts DEF CreateTripWithItem
  <2>2. Chained' /\ Ledger!Open(t, {i})
    BY <1>2, <2>1, CreateRefines DEF CreateTripWithItem, Chained
  <2>3. AllPrepared'
    BY <1>2, <2>1, AllStayPrepared, LedgerFacts DEF CreateTripWithItem
  <2>. QED
    BY <2>2, <2>3 DEF Ledger!Step
<1>3. ASSUME NEW i \in Item, DeleteItem(i)  PROVE Goal
  <2>1. Chained' /\ Ledger!Drop(i)
    BY <1>3, DropRefines DEF DeleteItem, trips, Chained
  <2>2. AllPrepared'
    BY <1>3, AllStayPrepared, LedgerFacts DEF DeleteItem, trips
  <2>. QED
    BY <2>1, <2>2 DEF Ledger!Step
<1>4. ASSUME NEW x \in Session, Respond(x)  PROVE Goal
  BY <1>4, RespondRefines
<1>5. CASE Sweep
  <2>1. Chained' /\ Ledger!Purge({t \in Trip : Expired(t)})
    BY <1>5, SweepRefines DEF Chained
  <2>2. AllPrepared'
    <3>1. /\ \A t \in Trip : mergedInto'[t] \in {mergedInto[t], NoTrip}
          /\ \A t \in exists \cap exists' :
                 /\ audit'[t] = audit[t]
                 /\ mergedInto'[t] = mergedInto[t] \/ mergedInto[t] \notin exists'
          /\ \A i \in Item : tripOf'[i] \in {tripOf[i], Gone}
          /\ exists' \subseteq exists /\ unborn' = unborn /\ session' = session
      BY <1>5, LedgerFacts DEF Sweep, DeleteRows
    <3>. QED
      BY <3>1, AllStayPrepared
  <2>. QED
    BY <2>1, <2>2 DEF Ledger!Step
<1>6. CASE Tick \/ UNCHANGED vars
  <2>1. UNCHANGED <<unborn, exists, mergedInto, audit, tripOf, session>>
    BY <1>6 DEF Tick, vars
  <2>2. AllPrepared'
    BY <2>1, AllStayPrepared
  <2>. QED
    BY <2>1, <2>2, LedgerStutters DEF Chained
<1>. QED
  BY <1>1, <1>2, <1>3, <1>4, <1>5, <1>6 DEF Next

LEMMA LedgerStep ==
  LedgerInv /\ [Next /\ Apart']_vars => LedgerInv' /\ [Ledger!Next]_(Ledger!vars)
<1>. SUFFICES ASSUME LedgerInv, [Next /\ Apart']_vars
              PROVE  LedgerInv' /\ [Ledger!Next]_(Ledger!vars)
  OBVIOUS
<1>1. LedgerInv'
  BY NextRefines, ApartStep DEF LedgerInv, Chained
<1>2. tripOf' = Ledger!ShownIn(mergedInto', Homes')
  BY <1>1, PlacedNext
<1>. QED
  BY <1>1, <1>2, NextRefines DEF Ledger!Next

\* Merges, undos and purges, moving rows and moving them back from audits, do
\* what pointers between trips would do: no item is lost, gained or misplaced
\* by them, for any number of trips and items, whenever the purge comes.
THEOREM MergeImplementsLedger == ApartSpec => ImplementsLedger
  BY LedgerInit, LedgerStep, PTL DEF ApartSpec, ImplementsLedger, Ledger!Spec

\* Soft-deleted trips never point at each other in a circle.
THEOREM MergesEnd == ApartSpec => []NoCycles
<1>1. LedgerInv => NoCycles
  BY DEF LedgerInv
<1>. QED
  BY <1>1, LedgerInit, LedgerStep, PTL DEF ApartSpec
=============================================================================
