----------------------------- MODULE MoneyProofs -----------------------------
(* Amounts match, rates are recent and stay frozen, for every set of          *)
(* expenses, requests, currencies, scales, rates and amounts.                 *)
EXTENDS Money, TLAPS

USE MoneyAssumption

-----------------------------------------------------------------------------
(* Rounding.                                                                  *)

\* Division with ROUND_HALF_UP is off by half at most.
LEMMA HalfUp ==
    ASSUME NEW n \in Nat, NEW m \in Nat, m > 0
    PROVE  LET q == (2 * n + m) \div (2 * m)
           IN  q \in Nat /\ 2 * (q * m - n) <= m /\ 2 * (n - q * m) < m
<1> DEFINE a == 2 * n + m
           b == 2 * m
           q == a \div b
<1>1. a \in Int /\ b \in Int /\ b > 0 /\ a >= 0 OBVIOUS
<1>2. q \in Nat BY <1>1
<1> HIDE DEF a, b
<1>3. b * q <= a BY <1>1, SMTT(30)
<1>4. a < b * q + b BY <1>1, SMTT(30)
<1>5. b * q = 2 * (q * m) BY <1>2 DEF b
<1>6. q * m \in Nat BY <1>2
<1> HIDE DEF q
<1>7. 2 * (q * m - n) <= m /\ 2 * (n - q * m) < m BY <1>3, <1>4, <1>5, <1>6 DEF a, b
<1> QED BY <1>2, <1>7 DEF q, a, b

\* recompute_home_minor gives the nearest whole number of minor units.
LEMMA RecomputeIsNearest ==
    ASSUME NEW amount \in Nat, NEW native \in Currency, NEW to \in Currency, NEW rate \in Nat
    PROVE  LET h == Recompute(amount, native, to, rate)
               exact == amount * rate * Scale[to]
               grain == Unit * Scale[native]
           IN  h \in Nat /\ 2 * (h * grain - exact) <= grain /\ 2 * (exact - h * grain) < grain
<1> DEFINE exact == amount * rate * Scale[to]
           grain == Unit * Scale[native]
<1>1. Scale[to] \in Nat /\ Scale[native] \in Nat /\ Scale[native] > 0 /\ Unit \in Nat /\ Unit > 0
  OBVIOUS
<1>2. exact \in Nat BY <1>1
<1>3. grain \in Nat /\ grain > 0 BY <1>1
<1>4. Recompute(amount, native, to, rate) = (2 * exact + grain) \div (2 * grain)
  BY DEF Recompute
<1> HIDE DEF exact, grain
<1>5. Recompute(amount, native, to, rate) \in Nat
      /\ 2 * (Recompute(amount, native, to, rate) * grain - exact) <= grain
      /\ 2 * (exact - Recompute(amount, native, to, rate) * grain) < grain
  BY <1>2, <1>3, <1>4, HalfUp
<1> QED BY <1>5 DEF exact, grain

\* freeze_fx makes a row that matches.
LEMMA FreezeMatches ==
    ASSUME NEW amount \in Nat, NEW native \in Currency, NEW to \in Currency, NEW rate \in Nat,
           rate # 0, native = to => rate = Unit
    PROVE  Freeze(amount, native, to, rate) \in Row /\ Nearest(Freeze(amount, native, to, rate))
<1>1. CASE native = to
  <2>1. Scale[to] \in Nat /\ Scale[to] > 0 /\ Unit \in Nat /\ Unit > 0 OBVIOUS
  <2>2. amount * rate * Scale[to] = amount * (Unit * Scale[native]) BY <1>1, <2>1
  <2>3. Unit * Scale[native] \in Nat /\ Unit * Scale[native] > 0 BY <1>1, <2>1
  <2>4. amount * (Unit * Scale[native]) \in Nat BY <2>3
  <2>5. Freeze(amount, native, to, rate)
        = [amount |-> amount, currency |-> native, rate |-> rate, home |-> to, homeMinor |-> amount]
    BY <1>1 DEF Freeze
  <2> QED BY <1>1, <2>2, <2>3, <2>4, <2>5 DEF Row, Draft, Nearest
<1>2. CASE native # to
  <2>1. Freeze(amount, native, to, rate)
        = [amount |-> amount, currency |-> native, rate |-> rate, home |-> to,
           homeMinor |-> Recompute(amount, native, to, rate)]
    BY <1>2 DEF Freeze
  <2> QED BY <1>2, <2>1, RecomputeIsNearest DEF Row, Draft, Nearest
<1> QED BY <1>1, <1>2

\* The amount of an edit goes with the frozen rate.
LEMMA EditedMatches ==
    ASSUME NEW old \in Row, NEW amount \in Nat
    PROVE  /\ Edited(old, amount) \in Row
           /\ Edited(old, amount).currency = old.currency
           /\ Edited(old, amount).rate = old.rate
           /\ Edited(old, amount).home = old.home
           /\ Nearest(old) => Nearest(Edited(old, amount))
<1>1. CASE amount = old.amount BY <1>1 DEF Edited
<1>2. CASE amount # old.amount
  <2> DEFINE h == Recompute(amount, old.currency, old.home, old.rate)
             new == [amount |-> amount, currency |-> old.currency, rate |-> old.rate,
                     home |-> old.home, homeMinor |-> h]
  <2>1. Edited(old, amount) = new BY <1>2 DEF Edited, Row, Draft
  <2>2. old.currency \in Currency /\ old.home \in Currency /\ old.rate \in Nat /\ old.rate # 0
    BY DEF Row, Draft
  <2>3. h \in Nat BY <2>2, RecomputeIsNearest
  <2>4. new \in Row BY <2>2, <2>3 DEF Row, Draft
  <2>5. ASSUME Nearest(old) PROVE Nearest(new)
    <3>1. old.currency = old.home => old.rate = Unit BY <2>5 DEF Nearest
    <3> QED BY <2>2, <3>1, RecomputeIsNearest DEF Nearest
  <2> QED BY <2>1, <2>4, <2>5
<1> QED BY <1>1, <1>2

-----------------------------------------------------------------------------
(* The inductive invariant.                                                   *)

\* What an expense promises while no two requests have crossed on it.
Right(x) == Nearest(row[x]) /\ row[x].home = origin[x].shown /\ origin[x].age <= 1

\* The row a request has loaded is one nothing is promised of any more.
Lost(q) == q.x # None /\ (q.x \in Stored => q.x \in crossed)

\* What a request waiting for its rate, or about to write, has in memory.
Sound(q) ==
    /\ q.stage = "idle" => q.x = None
    /\ q.stage \in {"rate", "fetch"} =>
          /\ q.new.home # q.new.currency /\ q.new.home = q.shown /\ q.age \in {0, 1}
          /\ q.x # None => q.new.currency # q.old.currency
    /\ q.stage = "rate" => q.age = 0
    /\ q.stage = "fetch" /\ ~q.night => q.age = 0
    /\ q.stage = "write" =>
          Lost(q) \/ (Nearest(q.new) /\ q.new.home = q.shown /\ q.age <= 1)
    /\ q.x # None /\ q.new.currency = q.old.currency =>
          q.new.rate = q.old.rate /\ q.new.home = q.old.home

Inv ==
    /\ TypeOK
    /\ \A x \in Stored \ crossed : Right(x)
    /\ \A b \in Currency : cache[b] # None => cache[b].age <= 1
    /\ \A s \in Session : Sound(session[s])

Request_ == [stage : {"idle", "rate", "fetch", "write"}, x : Expense \cup {None},
             old : Draft \cup {None}, new : Draft \cup {None}, shown : Currency,
             age : Nat, night : BOOLEAN]

\* What TypeOK says of one request.
Typed(q) ==
    /\ q \in Request_
    /\ q.x # None => q.old \in Row
    /\ q.stage # "idle" => q.new \in Draft
    /\ q.stage = "write" => q.new \in Row

LEMMA TypesOfRequests ==
    ASSUME TypeOK
    PROVE  \A s \in Session : Typed(session[s])
BY DEF TypeOK, Typed, Busy, Request_

LEMMA TypesOfRequestsNext ==
    ASSUME session' \in [Session -> Request_], \A s \in Session : Typed(session'[s]),
           home' \in Currency, row' \in [Expense -> Row \cup {None}],
           cache' \in [Currency -> [table : Table, age : Nat] \cup {None}],
           origin' \in [Expense -> [shown : Currency, age : Nat]],
           crossed' \subseteq Stored', turns' \in 0 .. MaxTurns
    PROVE  TypeOK'
BY DEF TypeOK, Typed, Busy, Request_

LEMMA IdleIsSound == Typed(Idle) /\ Sound(Idle)
BY DEF Idle, Typed, Request_, Sound

LEMMA InvInit == Init => Inv
<1> SUFFICES ASSUME Init PROVE Inv OBVIOUS
<1>1. Stored = {} BY DEF Init, Stored
<1>2. \A s \in Session : session[s] = Idle BY DEF Init
<1>3. Busy = {} BY <1>2 DEF Busy, Idle
<1>4. session \in [Session -> Request_] BY IdleIsSound DEF Init, Typed
<1>5. TypeOK BY <1>1, <1>2, <1>3, <1>4, IdleIsSound DEF Init, TypeOK, Typed, Request_
<1> QED BY <1>1, <1>2, <1>5, IdleIsSound DEF Init, Inv

-----------------------------------------------------------------------------
(* Steps of one request that write no row.                                    *)

\* Such a step preserves the invariant if it leaves its own request right.
LEMMA OneRequest ==
    ASSUME Inv, NEW s \in Session, NEW q, session' = [session EXCEPT ![s] = q],
           Typed(q), Sound(q), UNCHANGED <<home, row, origin, crossed>>,
           turns' \in 0 .. MaxTurns,
           cache' \in [Currency -> [table : Table, age : Nat] \cup {None}],
           \A b \in Currency : cache'[b] # None => cache'[b].age <= 1
    PROVE  Inv'
<1>1. Stored' = Stored BY DEF Stored
<1>2. \A r \in Session : session'[r] = IF r = s THEN q ELSE session[r] BY DEF Inv, TypeOK
<1>3. \A r \in Session : Typed(session'[r]) BY <1>2, TypesOfRequests DEF Inv
<1>4. session' \in [Session -> Request_]
  BY <1>3 DEF Typed, Inv, TypeOK
<1>5. TypeOK' BY <1>1, <1>3, <1>4, TypesOfRequestsNext DEF Inv, TypeOK
<1>6. (\A x \in Stored \ crossed : Right(x))' BY <1>1 DEF Inv, Right, Nearest
<1>7. (\A r \in Session : Sound(session[r]))'
  <2> TAKE r \in Session
  <2>1. \A p : Sound(p) => Sound(p)' BY <1>1 DEF Sound, Lost, Nearest
  <2> QED BY <1>2, <2>1 DEF Inv
<1> QED BY <1>5, <1>6, <1>7 DEF Inv

\* A request that asks for a rate, or gets by without.
LEMMA AskRateSound ==
    ASSUME Inv, NEW s \in Session, NEW x \in Expense \cup {None}, NEW amount \in Nat,
           NEW native \in Currency, NEW shown \in Currency, shown = home,
           x # None => x \in Stored /\ native # row[x].currency,
           AskRate(s, x, amount, native, shown), turns' \in 0 .. MaxTurns,
           UNCHANGED <<home, row, cache, origin, crossed>>
    PROVE  Inv'
<1> DEFINE q == [stage |-> Stage(native, home), x |-> x,
                 old |-> IF x = None THEN None ELSE row[x],
                 new |-> Awaiting(amount, native, home), shown |-> shown,
                 age |-> 0, night |-> FALSE]
           new == Awaiting(amount, native, home)
<1>1. home \in Currency BY DEF Inv, TypeOK
<1>2. x # None => row[x] \in Row BY DEF Inv, TypeOK, Stored
<1>3. new.currency = native /\ new.home = home BY DEF Awaiting, Freeze
<1>4. CASE native = home
  <2>1. new \in Row /\ Nearest(new) BY <1>1, <1>4, FreezeMatches DEF Awaiting
  <2>2. new \in Draft BY <2>1 DEF Row
  <2>3. Typed(q) BY <1>2, <1>4, <2>1, <2>2 DEF Typed, Request_, Stage, Row
  <2>4. Sound(q) BY <1>2, <1>3, <1>4, <2>1 DEF Sound, Stage
  <2> QED BY <2>3, <2>4, OneRequest DEF AskRate, Inv, TypeOK
<1>5. CASE native # home
  <2>1. Recompute(amount, native, home, 0) \in Nat BY <1>1, RecomputeIsNearest
  <2>2. new \in Draft BY <1>1, <1>5, <2>1 DEF Awaiting, Freeze, Draft
  <2>3. Typed(q) BY <1>2, <1>5, <2>2 DEF Typed, Request_, Stage, Row
  <2>4. Sound(q) BY <1>2, <1>3, <1>5 DEF Sound, Stage
  <2> QED BY <2>3, <2>4, OneRequest DEF AskRate, Inv, TypeOK
<1> QED BY <1>4, <1>5

LEMMA SubmitStep ==
    ASSUME Inv, NEW s \in Session, NEW amount \in Amount, NEW native \in Currency,
           NEW shown \in Currency,
           \/ Book(s, amount, native) \/ Create(s, shown, amount, native)
           \/ \E x \in Expense : Edit(s, x, shown, amount, native)
    PROVE  Inv'
<1>1. amount \in Nat /\ home \in Currency /\ turns \in 0 .. MaxTurns BY DEF Inv, TypeOK
<1>2. CASE Book(s, amount, native)
  BY <1>1, <1>2, AskRateSound DEF Book, Turn
<1>3. CASE Create(s, shown, amount, native)
  BY <1>1, <1>3, AskRateSound DEF Create, Turn, Agrees
<1>4. ASSUME NEW x \in Expense, Edit(s, x, shown, amount, native)
      PROVE  Inv'
  <2>1. x # None /\ x \in Stored /\ row[x] \in Row BY <1>4 DEF Edit, Stored, Inv, TypeOK
  <2>2. CASE native = row[x].currency
    <3> DEFINE q == [stage |-> "write", x |-> x, old |-> row[x], new |-> Edited(row[x], amount),
                     shown |-> origin[x].shown, age |-> origin[x].age, night |-> FALSE]
    <3>1. origin[x].shown \in Currency /\ origin[x].age \in Nat BY DEF Inv, TypeOK
    <3>2. Typed(q) BY <1>1, <2>1, <3>1, EditedMatches DEF Typed, Request_, Row
    <3>3. x \in crossed \/ Right(x) BY <2>1 DEF Inv
    <3>4. Sound(q) BY <1>1, <2>1, <3>3, EditedMatches DEF Sound, Lost, Right
    <3>5. /\ session' = [session EXCEPT ![s] = q] /\ turns' \in 0 .. MaxTurns
          /\ UNCHANGED <<home, row, cache, origin, crossed>>
      BY <1>1, <1>4, <2>2 DEF Edit, Turn
    <3> HIDE DEF q
    <3> QED BY <3>2, <3>4, <3>5, OneRequest DEF Inv, TypeOK
  <2>3. CASE native # row[x].currency
    BY <1>1, <1>4, <2>1, <2>3, AskRateSound DEF Edit, Turn, Agrees
  <2> QED BY <2>2, <2>3
<1> QED BY <1>2, <1>3, <1>4

\* A rate found or fetched.
LEMMA GotStep ==
    ASSUME Inv, NEW s \in Session, session[s].stage \in {"rate", "fetch"},
           NEW table \in Table, NEW age \in {0, 1}, Got(s, table, age),
           UNCHANGED <<home, row, origin, crossed, turns>>,
           cache' \in [Currency -> [table : Table, age : Nat] \cup {None}],
           \A b \in Currency : cache'[b] # None => cache'[b].age <= 1
    PROVE  Inv'
<1> DEFINE p == session[s]
           rate == table[p.new.home]
           new == Freeze(p.new.amount, p.new.currency, p.new.home, rate)
           q == [p EXCEPT !.stage = "write", !.age = age, !.new = new]
<1>1. Typed(p) /\ Sound(p) /\ p.new \in Draft BY TypesOfRequests DEF Inv, Typed
<1>2. p.new.amount \in Nat /\ p.new.currency \in Currency /\ p.new.home \in Currency
      /\ p.new.home # p.new.currency /\ p.new.home = p.shown
  BY <1>1 DEF Draft, Sound
<1>3. rate \in Nat BY <1>2
<1>4. CASE rate = 0
  <2>1. session' = [session EXCEPT ![s] = Idle] BY <1>4 DEF Got
  <2> QED BY <2>1, IdleIsSound, OneRequest DEF Inv, TypeOK
<1>5. CASE rate # 0
  <2>1. new \in Row /\ Nearest(new) BY <1>2, <1>3, <1>5, FreezeMatches
  <2>2. session' = [session EXCEPT ![s] = q] BY <1>5 DEF Got
  <2>3. new.currency = p.new.currency /\ new.home = p.new.home BY DEF Freeze
  <2> HIDE DEF new
  <2>4. q \in Request_ /\ q.stage = "write" /\ q.new = new /\ q.x = p.x /\ q.old = p.old
        /\ q.shown = p.shown /\ q.age = age
    <3>1. p \in Request_ /\ new \in Draft /\ age \in Nat BY <1>1, <2>1 DEF Typed, Row
    <3> HIDE DEF p
    <3> QED BY <3>1 DEF Request_
  <2>5. Typed(q) BY <1>1, <2>1, <2>4 DEF Typed, Row
  <2>6. p.x # None => new.currency # p.old.currency
    BY <1>1, <1>2, <2>3 DEF Sound
  <2>7. Sound(q) BY <1>2, <2>1, <2>3, <2>4, <2>6 DEF Sound
  <2> HIDE DEF q
  <2> QED BY <2>2, <2>5, <2>7, OneRequest DEF Inv, TypeOK
<1> QED BY <1>4, <1>5

LEMMA LookupStep ==
    ASSUME Inv, NEW s \in Session, Lookup(s)
    PROVE  Inv'
<1> DEFINE p == session[s]
           held == cache[p.new.currency]
<1>1. p.stage = "rate" /\ Typed(p) /\ Sound(p) BY TypesOfRequests DEF Lookup, Inv
<1>2. p \in Request_ /\ p.new \in Draft /\ p.age = 0 BY <1>1 DEF Typed, Sound
<1>3. p.new.currency \in Currency BY <1>2 DEF Draft
<1>4. CASE held # None
  <2>1. held.table \in Table /\ held.age \in {0, 1}
    <3>1. held \in [table : Table, age : Nat] BY <1>3, <1>4 DEF Inv, TypeOK
    <3>2. held.age <= 1 BY <1>3, <1>4 DEF Inv
    <3> QED BY <3>1, <3>2
  <2>2. Got(s, held.table, held.age) BY <1>4 DEF Lookup
  <2>3. UNCHANGED <<home, row, cache, origin, crossed, turns>> BY DEF Lookup
  <2> QED BY <1>1, <2>1, <2>2, <2>3, GotStep DEF Inv, TypeOK
<1>5. CASE held = None
  <2> DEFINE q == [p EXCEPT !.stage = "fetch"]
  <2>1. session' = [session EXCEPT ![s] = q] BY <1>5 DEF Lookup
  <2>2. Typed(q) BY <1>1, <1>2 DEF Typed, Request_
  <2>3. Sound(q) BY <1>1, <1>2 DEF Sound, Request_
  <2>4. UNCHANGED <<home, row, cache, origin, crossed, turns>> BY DEF Lookup
  <2> HIDE DEF q
  <2> QED BY <2>1, <2>2, <2>3, <2>4, OneRequest DEF Inv, TypeOK
<1> QED BY <1>4, <1>5

LEMMA AnswerStep ==
    ASSUME Inv, NEW s \in Session, NEW table \in Table, Answer(s, table)
    PROVE  Inv'
<1> DEFINE p == session[s]
<1>1. p.stage = "fetch" /\ Typed(p) /\ Sound(p) BY TypesOfRequests DEF Answer, Inv
<1>2. p.new \in Draft /\ p.age \in {0, 1} BY <1>1 DEF Typed, Sound
<1>3. p.new.currency \in Currency BY <1>2 DEF Draft
<1>4. /\ cache' = [cache EXCEPT ![p.new.currency] = [table |-> table, age |-> p.age]]
      /\ Got(s, table, p.age) /\ UNCHANGED <<home, row, origin, crossed, turns>>
  BY DEF Answer
<1>5. cache' \in [Currency -> [table : Table, age : Nat] \cup {None}]
  BY <1>2, <1>4 DEF Inv, TypeOK
<1>6. \A b \in Currency : cache'[b] # None => cache'[b].age <= 1
  BY <1>2, <1>4 DEF Inv, TypeOK
<1> QED BY <1>1, <1>2, <1>4, <1>5, <1>6, GotStep

LEMMA UnavailableStep ==
    ASSUME Inv, NEW s \in Session, Unavailable(s)
    PROVE  Inv'
BY IdleIsSound, OneRequest DEF Unavailable, Inv, TypeOK

-----------------------------------------------------------------------------
(* The other steps.                                                           *)

\* The requests other than s hold what they held.
LEMMA OthersSound ==
    ASSUME Inv, NEW s \in Session, session' = [session EXCEPT ![s] = Idle],
           \A r \in Session \ {s} : Lost(session[r]) => Lost(session[r])'
    PROVE  /\ session' \in [Session -> Request_]
           /\ \A r \in Session : Typed(session'[r])
           /\ (\A r \in Session : Sound(session[r]))'
<1>1. \A r \in Session : session'[r] = IF r = s THEN Idle ELSE session[r] BY DEF Inv, TypeOK
<1>2. \A r \in Session : Typed(session'[r]) BY <1>1, IdleIsSound, TypesOfRequests DEF Inv
<1>3. session' \in [Session -> Request_] BY <1>2 DEF Typed, Inv, TypeOK
<1>4. ASSUME NEW r \in Session PROVE Sound(session[r])'
  <2>1. CASE r = s BY <1>1, <2>1 DEF Sound, Idle
  <2>2. CASE r # s
    <3>1. session'[r] = session[r] /\ Sound(session[r]) BY <1>1, <2>2 DEF Inv
    <3>2. Lost(session[r]) => Lost(session[r])' BY <2>2
    <3> QED BY <3>1, <3>2 DEF Sound, Nearest
  <2> QED BY <2>1, <2>2
<1> QED BY <1>2, <1>3, <1>4

LEMMA InsertStep ==
    ASSUME Inv, NEW s \in Session, NEW x \in Expense, Insert(s, x)
    PROVE  Inv'
<1> DEFINE p == session[s]
<1>1. p.stage = "write" /\ p.x = None /\ Typed(p) /\ Sound(p) BY TypesOfRequests DEF Insert, Inv
<1>2. p.new \in Row /\ p.shown \in Currency /\ p.age \in Nat /\ Nearest(p.new)
      /\ p.new.home = p.shown /\ p.age <= 1
  BY <1>1 DEF Typed, Request_, Sound, Lost
<1>3. row' = [row EXCEPT ![x] = p.new] /\ origin' = [origin EXCEPT ![x] = From(s)]
      /\ session' = [session EXCEPT ![s] = Idle] /\ UNCHANGED <<home, cache, crossed, turns>>
      /\ x \notin Stored /\ \A r \in Busy : session[r].x # x
  BY DEF Insert
<1>4. row' \in [Expense -> Row \cup {None}] /\ \A y \in Expense \ {x} : row'[y] = row[y]
  BY <1>2, <1>3 DEF Inv, TypeOK
<1>5. origin' \in [Expense -> [shown : Currency, age : Nat]] /\ \A y \in Expense \ {x} : origin'[y] = origin[y]
  BY <1>2, <1>3 DEF Inv, TypeOK, From
<1>6. row'[x] = p.new /\ origin'[x] = [shown |-> p.shown, age |-> p.age]
  BY <1>3 DEF Inv, TypeOK, From
<1>7. Stored' \subseteq Stored \cup {x} /\ Stored \subseteq Stored' BY <1>3, <1>4 DEF Stored
<1>8. \A r \in Session \ {s} : Lost(session[r]) => Lost(session[r])'
  <2> SUFFICES ASSUME NEW r \in Session \ {s}, Lost(session[r]) PROVE Lost(session[r])' OBVIOUS
  <2>1. session'[r] = session[r] BY <1>3 DEF Inv, TypeOK
  <2>2. session[r].x # x
    <3>1. CASE r \in Busy BY <1>3, <3>1
    <3>2. CASE r \notin Busy
      BY <3>2 DEF Busy, Lost, Inv, Sound
    <3> QED BY <3>1, <3>2
  <2> QED BY <1>3, <1>7, <2>1, <2>2 DEF Lost
<1>9. /\ session' \in [Session -> Request_] /\ \A r \in Session : Typed(session'[r])
      /\ (\A r \in Session : Sound(session[r]))'
  BY <1>3, <1>8, OthersSound
<1>10. TypeOK'
  <2>1. crossed' \subseteq Stored' BY <1>3, <1>7 DEF Inv, TypeOK
  <2> QED BY <1>3, <1>4, <1>5, <1>9, <2>1, TypesOfRequestsNext DEF Inv, TypeOK
<1>11. (\A y \in Stored \ crossed : Right(y))'
  <2> SUFFICES ASSUME NEW y \in Stored' \ crossed' PROVE Right(y)' OBVIOUS
  <2>1. CASE y = x BY <1>2, <1>6, <2>1 DEF Right, Nearest
  <2>2. CASE y # x
    <3>1. y \in Stored \ crossed /\ y \in Expense BY <1>3, <1>7, <2>2 DEF Stored
    <3>2. row'[y] = row[y] /\ origin'[y] = origin[y] BY <1>4, <1>5, <2>2, <3>1
    <3> QED BY <3>1, <3>2 DEF Inv, Right, Nearest
  <2> QED BY <2>1, <2>2
<1>12. (\A b \in Currency : cache[b] # None => cache[b].age <= 1)' BY <1>3 DEF Inv
<1> QED BY <1>9, <1>10, <1>11, <1>12 DEF Inv

\* The columns written are those of the row in memory, if it was loaded as it is.
LEMMA MergedTypes ==
    ASSUME NEW old \in Row, NEW new \in Row, NEW now \in Row
    PROVE  /\ Merged(old, new, now) \in Row
           /\ now = old => Merged(old, new, now) = new
BY DEF Merged, Column, Row, Draft

LEMMA UpdateStep ==
    ASSUME Inv, NEW s \in Session, Update(s)
    PROVE  Inv'
<1> DEFINE p == session[s]
           x == p.x
<1>1. p.stage = "write" /\ x # None /\ Typed(p) /\ Sound(p) BY TypesOfRequests DEF Update, Inv
<1>2. x \in Expense /\ p.new \in Row /\ p.old \in Row /\ p.shown \in Currency /\ p.age \in Nat
  BY <1>1 DEF Typed, Request_
<1>3. session' = [session EXCEPT ![s] = Idle] /\ UNCHANGED <<home, cache, turns>> BY DEF Update
<1>4. (\A b \in Currency : cache[b] # None => cache[b].age <= 1)' BY <1>3 DEF Inv
<1>5. CASE x \notin Stored
  <2>1. UNCHANGED <<row, origin, crossed>> BY <1>5 DEF Update
  <2> QED BY <1>3, <2>1, IdleIsSound, OneRequest DEF Inv, TypeOK
<1>6. CASE x \in Stored
  <2> DEFINE m == Merged(p.old, p.new, row[x])
  <2>1. /\ row' = [row EXCEPT ![x] = m] /\ origin' = [origin EXCEPT ![x] = From(s)]
        /\ crossed' = IF row[x] = p.old THEN crossed ELSE crossed \cup {x}
    BY <1>6 DEF Update
  <2>2. row[x] \in Row BY <1>6 DEF Stored, Inv, TypeOK
  <2>3. m \in Row /\ (row[x] = p.old => m = p.new) BY <1>2, <2>2, MergedTypes
  <2> HIDE DEF m
  <2>4. row' \in [Expense -> Row \cup {None}] /\ row'[x] = m
        /\ \A y \in Expense \ {x} : row'[y] = row[y]
    BY <1>2, <2>1, <2>3 DEF Inv, TypeOK
  <2>5. origin' \in [Expense -> [shown : Currency, age : Nat]]
        /\ origin'[x] = [shown |-> p.shown, age |-> p.age]
        /\ \A y \in Expense \ {x} : origin'[y] = origin[y]
    BY <1>2, <2>1 DEF Inv, TypeOK, From
  <2>6. Stored' \subseteq Stored /\ Stored \ {x} \subseteq Stored' BY <1>6, <2>4 DEF Stored
  <2>7. crossed \subseteq crossed' BY <2>1
  <2>8. \A r \in Session \ {s} : Lost(session[r]) => Lost(session[r])'
    <3> SUFFICES ASSUME NEW r \in Session \ {s}, Lost(session[r]) PROVE Lost(session[r])' OBVIOUS
    <3>1. session'[r] = session[r] BY <1>3 DEF Inv, TypeOK
    <3> QED BY <2>6, <2>7, <3>1 DEF Lost
  <2>9. /\ session' \in [Session -> Request_] /\ \A r \in Session : Typed(session'[r])
        /\ (\A r \in Session : Sound(session[r]))'
    BY <1>3, <2>8, OthersSound
  <2>10. (\A y \in Stored \ crossed : Right(y))'
    <3> SUFFICES ASSUME NEW y \in Stored' \ crossed' PROVE Right(y)' OBVIOUS
    <3>1. CASE y = x
      <4>1. row[x] = p.old /\ x \notin crossed BY <2>1, <2>7, <3>1
      <4>2. Nearest(p.new) /\ p.new.home = p.shown /\ p.age <= 1
        BY <1>1, <1>6, <4>1 DEF Sound, Lost
      <4> QED BY <2>3, <2>4, <2>5, <3>1, <4>1, <4>2 DEF Right, Nearest
    <3>2. CASE y # x
      <4>1. y \in Stored \ crossed /\ y \in Expense BY <2>6, <2>7 DEF Stored
      <4>2. row'[y] = row[y] /\ origin'[y] = origin[y] BY <2>4, <2>5, <3>2, <4>1
      <4> QED BY <4>1, <4>2 DEF Inv, Right, Nearest
    <3> QED BY <3>1, <3>2
  <2>11. TypeOK'
    <3>1. m # None BY <2>3 DEF Row
    <3>2. x \in Stored' BY <1>2, <2>4, <3>1 DEF Stored
    <3>3. crossed' \subseteq Stored' BY <2>1, <2>6, <3>2 DEF Inv, TypeOK
    <3> QED BY <1>3, <2>4, <2>5, <2>9, <3>3, TypesOfRequestsNext DEF Inv, TypeOK
  <2> QED BY <1>4, <2>9, <2>10, <2>11 DEF Inv
<1> QED BY <1>5, <1>6

LEMMA DeleteStep ==
    ASSUME Inv, NEW x \in Expense, Delete(x)
    PROVE  Inv'
<1>1. /\ row' = [row EXCEPT ![x] = None] /\ crossed' = crossed \ {x}
      /\ UNCHANGED <<home, cache, session, origin>> /\ turns' \in 0 .. MaxTurns
  BY DEF Delete, Turn, Inv, TypeOK
<1>2. row' \in [Expense -> Row \cup {None}] BY <1>1 DEF Inv, TypeOK
<1>3. Stored' = Stored \ {x} /\ \A y \in Expense \ {x} : row'[y] = row[y]
  BY <1>1 DEF Stored, Inv, TypeOK
<1>4. \A r \in Session : Typed(session'[r]) BY <1>1, TypesOfRequests DEF Inv
<1>5. TypeOK'
  <2>1. session' \in [Session -> Request_] BY <1>1 DEF Inv, TypeOK, Request_
  <2> QED BY <1>1, <1>2, <1>3, <1>4, <2>1, TypesOfRequestsNext DEF Inv, TypeOK
<1>6. (\A y \in Stored \ crossed : Right(y))'
  <2> SUFFICES ASSUME NEW y \in Stored' \ crossed' PROVE Right(y)' OBVIOUS
  <2>1. y \in Stored \ crossed /\ y \in Expense \ {x} BY <1>1, <1>3 DEF Stored
  <2> QED BY <1>1, <1>3, <2>1 DEF Inv, Right, Nearest
<1>7. (\A r \in Session : Sound(session[r]))'
  <2> SUFFICES ASSUME NEW r \in Session PROVE Sound(session[r])' OBVIOUS
  <2>1. session'[r] = session[r] /\ Sound(session[r]) BY <1>1 DEF Inv
  <2>2. Lost(session[r]) => Lost(session[r])' BY <1>1, <1>3 DEF Lost
  <2> QED BY <2>1, <2>2 DEF Sound, Nearest
<1> QED BY <1>1, <1>5, <1>6, <1>7 DEF Inv

LEMMA UpdateHomeStep ==
    ASSUME Inv, NEW c \in Currency, UpdateHome(c)
    PROVE  Inv'
<1>1. home' = c /\ UNCHANGED <<row, cache, session, origin, crossed>> /\ turns' \in 0 .. MaxTurns
  BY DEF UpdateHome, Turn, Inv, TypeOK
<1>2. Stored' = Stored /\ Busy' = Busy BY <1>1 DEF Stored, Busy
<1>3. TypeOK' BY <1>1, <1>2 DEF Inv, TypeOK
<1> QED BY <1>1, <1>2, <1>3 DEF Inv, Right, Nearest, Sound, Lost

LEMMA MidnightStep ==
    ASSUME Inv, Midnight
    PROVE  Inv'
<1>1. /\ \A s \in Busy : ~session[s].night
      /\ session' = [s \in Session |-> PastMidnight(s)]
      /\ cache' = [b \in Currency |-> None]
      /\ UNCHANGED <<home, row, origin, crossed>> /\ turns' \in 0 .. MaxTurns
  BY DEF Midnight, Turn, Inv, TypeOK
<1>2. Stored' = Stored BY <1>1 DEF Stored
<1>3. ASSUME NEW s \in Session
      PROVE  Typed(session'[s]) /\ Sound(session[s])'
  <2> DEFINE p == session[s]
  <2>1. session'[s] = PastMidnight(s) /\ Typed(p) /\ Sound(p) BY <1>1, TypesOfRequests DEF Inv
  <2>2. \A q : Sound(q) => Sound(q)' BY <1>1, <1>2 DEF Sound, Lost, Nearest
  <2>3. CASE s \notin Busy BY <2>1, <2>2, <2>3 DEF PastMidnight
  <2>4. CASE s \in Busy
    <3> DEFINE age == IF p.stage = "fetch" THEN p.age + 1 ELSE p.age
               q == [p EXCEPT !.night = TRUE, !.age = age]
    <3>1. session'[s] = q BY <2>1, <2>4 DEF PastMidnight
    <3>2. p \in Request_ /\ ~p.night BY <1>1, <2>1, <2>4 DEF Typed
    <3>9. age \in Nat BY <3>2 DEF Request_
    <3> HIDE DEF p, age
    <3>3. q \in Request_ /\ q.stage = p.stage /\ q.x = p.x /\ q.old = p.old /\ q.new = p.new
          /\ q.shown = p.shown /\ q.night
          /\ q.age = age
      BY <3>2, <3>9 DEF Request_
    <3> HIDE DEF q
    <3>4. Typed(q) BY <2>1, <3>3 DEF Typed
    <3>5. Sound(q)
      BY <2>1, <3>2, <3>3 DEF Sound, Lost, age
    <3> QED BY <2>2, <3>1, <3>4, <3>5
  <2> QED BY <2>3, <2>4
<1>4. TypeOK'
  <2>1. session' \in [Session -> Request_] BY <1>1, <1>3 DEF Typed
  <2> QED BY <1>1, <1>2, <1>3, <2>1, TypesOfRequestsNext DEF Inv, TypeOK
<1>5. (\A x \in Stored \ crossed : Right(x))' BY <1>1, <1>2 DEF Inv, Right, Nearest
<1> QED BY <1>1, <1>3, <1>4, <1>5 DEF Inv

LEMMA InvStep == Inv /\ [Next]_vars => Inv'
<1> SUFFICES ASSUME Inv, [Next]_vars PROVE Inv' OBVIOUS
<1>1. ASSUME NEW s \in Session, Request(s) PROVE Inv'
  <2>1. ASSUME NEW amount \in Amount, NEW native \in Currency, Book(s, amount, native) PROVE Inv'
    <3>1. Default \in Currency OBVIOUS
    <3> QED BY <2>1, <3>1, SubmitStep
  <2>2. ASSUME NEW amount \in Amount, NEW native \in Currency, NEW shown \in Currency,
               Create(s, shown, amount, native) \/ \E x \in Expense : Edit(s, x, shown, amount, native)
        PROVE  Inv'
    BY <2>2, SubmitStep
  <2> QED BY <1>1, <2>1, <2>2, LookupStep, AnswerStep, UnavailableStep, InsertStep, UpdateStep
          DEF Request
<1>2. CASE UNCHANGED vars
  <2>1. Stored' = Stored /\ Busy' = Busy BY <1>2 DEF vars, Stored, Busy
  <2>2. TypeOK' BY <1>2, <2>1 DEF vars, Inv, TypeOK
  <2> QED BY <1>2, <2>1, <2>2 DEF vars, Inv, Right, Nearest, Sound, Lost
<1> QED BY <1>1, <1>2, DeleteStep, UpdateHomeStep, MidnightStep DEF Next

LEMMA InvAlways == Spec => []Inv
BY InvInit, InvStep, PTL DEF Spec

-----------------------------------------------------------------------------
(* What follows.                                                              *)

\* Columns and requests are of their types, and no row is written without a rate.
THEOREM MoneyTypes == Spec => []TypeOK
<1>1. Inv => TypeOK BY DEF Inv
<1> QED BY <1>1, InvAlways, PTL

\* The home amount of every expense that no two requests edited at once is its
\* amount at its rate, to half a minor unit.
THEOREM MoneyMatches == Spec => []AmountsMatch
<1>1. Inv => AmountsMatch BY DEF Inv, Right, AmountsMatch
<1> QED BY <1>1, InvAlways, PTL

\* It is in the home currency the form showed.
THEOREM MoneyAsShown == Spec => []FrozenAsShown
<1>1. Inv => FrozenAsShown BY DEF Inv, Right, FrozenAsShown
<1> QED BY <1>1, InvAlways, PTL

\* Its rate was a day old at most.
THEOREM MoneyRecent == Spec => []RatesAreRecent
<1>1. Inv => RatesAreRecent BY DEF Inv, Right, RatesAreRecent
<1> QED BY <1>1, InvAlways, PTL

\* Rate and home currency stay as long as the currency does.
THEOREM MoneyFrozen == Spec => RateStaysFrozen
<1> DEFINE A == \A x \in Stored : (x \in Stored' \ crossed' /\ row'[x].currency = row[x].currency)
                   => row'[x].rate = row[x].rate /\ row'[x].home = row[x].home
<1>1. ASSUME Inv, Next PROVE A
  <2> SUFFICES ASSUME NEW x \in Stored, x \in Stored' \ crossed', row'[x].currency = row[x].currency
               PROVE  row'[x].rate = row[x].rate /\ row'[x].home = row[x].home
    OBVIOUS
  <2>1. x \in Expense /\ row \in [Expense -> Row \cup {None}] BY <1>1 DEF Stored, Inv, TypeOK
  <2>2. CASE row' = row BY <2>2
  <2>3. ASSUME NEW s \in Session, NEW y \in Expense, Insert(s, y)
        PROVE  row'[x].rate = row[x].rate /\ row'[x].home = row[x].home
    BY <2>1, <2>3 DEF Insert
  <2>4. ASSUME NEW y \in Expense, Delete(y)
        PROVE  row'[x].rate = row[x].rate /\ row'[x].home = row[x].home
    BY <2>1, <2>4 DEF Delete, Stored
  <2>5. ASSUME NEW s \in Session, Update(s)
        PROVE  row'[x].rate = row[x].rate /\ row'[x].home = row[x].home
    <3> DEFINE p == session[s]
    <3>1. CASE p.x # x \/ p.x \notin Stored BY <2>1, <2>5, <3>1 DEF Update
    <3>2. CASE p.x = x
      <4>1. Typed(p) /\ Sound(p) /\ p.stage = "write" /\ p.x # None
        BY <1>1, <2>5, TypesOfRequests DEF Update, Inv
      <4>2. row' = [row EXCEPT ![x] = Merged(p.old, p.new, row[x])] /\ row[x] = p.old
        BY <2>5, <3>2 DEF Update
      <4>3. p.old \in Row /\ p.new \in Row BY <4>1 DEF Typed
      <4>4. row'[x] = p.new BY <2>1, <4>2, <4>3, MergedTypes
      <4> QED BY <4>1, <4>2, <4>4 DEF Sound
    <3> QED BY <3>1, <3>2
  <2>6. ASSUME NEW s \in Session, Request(s)
        PROVE  row' = row \/ (\E y \in Expense : Insert(s, y)) \/ Update(s)
    BY <2>6 DEF Request, Book, Create, Edit, Lookup, Answer, Unavailable
  <2>7. (\E c \in Currency : UpdateHome(c)) \/ Midnight => row' = row
    BY DEF UpdateHome, Midnight
  <2> QED BY <1>1, <2>2, <2>3, <2>4, <2>5, <2>6, <2>7 DEF Next
<1>2. Inv /\ [Next]_vars => [A]_vars BY <1>1
<1> QED BY <1>2, InvAlways, PTL DEF Spec, RateStaysFrozen
=============================================================================
