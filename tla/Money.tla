-------------------------------- MODULE Money --------------------------------
(* What an expense is worth at home. A request freezes the rate of its        *)
(* currency when the expense is entered, by hand or by a confirmed email, and *)
(* again when its currency is edited; a new amount goes with the frozen rate. *)
(* Rates are fetched from a service and cached for the day. Requests wait for *)
(* the rate, up to seconds, without a lock: the user's home currency, the     *)
(* expense and the date may change meanwhile.                                 *)
(*                                                                            *)
(* One user. Where an expense is filed, and which of them a confirm books, is *)
(* in TripFiling.                                                             *)
EXTENDS Integers, FiniteSets

CONSTANTS Expense, Session,
          Currency,
          Scale,      \* [Currency -> Nat]: minor units of one unit, 10 ^ minor_digits
          Unit,       \* rates are whole numbers of 1 / Unit, numeric(20, 10)
          Amount,     \* the amounts forms and emails come with, in minor units
          Table,      \* what the service may answer: a rate per currency, 0 if it has none
          Default,    \* the home currency of a new user
          MaxTurns,   \* a bound: submits, deletions, changes of the setting and midnights
          None

\* The five columns.
Draft == [amount : Nat, currency : Currency, rate : Nat, home : Currency, homeMinor : Nat]

ASSUME MoneyAssumption ==
    /\ Scale \in [Currency -> Nat \ {0}] /\ Unit \in Nat \ {0}
    /\ Amount \subseteq Nat /\ Table \subseteq [Currency -> Nat]
    /\ Default \in Currency /\ MaxTurns \in Nat
    /\ None \notin Expense \cup Draft

VARIABLES
    home,       \* users.home_currency
    row,        \* the expenses: their five columns of money, None without a row
    cache,      \* the rates of a base under today's key, None if it is not set
    session,    \* what a request has in memory
    origin,     \* history: the home currency an expense's form showed, and how
                \* many days old its rate was when it was taken
    crossed,    \* history: the expenses saved by a request that had loaded an
                \* older version of them
    turns

vars == <<home, row, cache, session, origin, crossed, turns>>

Stored == {x \in Expense : row[x] # None}
Idle   == [stage |-> "idle", x |-> None, old |-> None, new |-> None, shown |-> Default,
           age |-> 0, night |-> FALSE]
Busy   == {s \in Session : session[s].stage # "idle"}

Init ==
    /\ home = Default
    /\ row = [x \in Expense |-> None]
    /\ cache = [b \in Currency |-> None]
    /\ session = [s \in Session |-> Idle]
    /\ origin = [x \in Expense |-> [shown |-> Default, age |-> 0]]
    /\ crossed = {}
    /\ turns = 0

Turn == turns < MaxTurns /\ turns' = turns + 1

-----------------------------------------------------------------------------
(* freeze.py.                                                                 *)

\* Mutant: minor units of the two currencies taken for the same.
SameDigits(amount, native, to, rate) == (2 * amount * rate + Unit) \div (2 * Unit)

\* recompute_home_minor: amount times rate in minor units of the other currency,
\* ROUND_HALF_UP.
Recompute(amount, native, to, rate) ==
    (2 * (amount * rate * Scale[to]) + Unit * Scale[native]) \div (2 * (Unit * Scale[native]))

\* freeze_fx, once the rate is known.
Freeze(amount, native, to, rate) ==
    [amount |-> amount, currency |-> native, rate |-> rate, home |-> to,
     homeMinor |-> IF native = to THEN amount ELSE Recompute(amount, native, to, rate)]

\* get_rate answers for the same currency without a look at the cache.
Awaiting(amount, native, to) == Freeze(amount, native, to, IF native = to THEN Unit ELSE 0)
Stage(native, to) == IF native = to THEN "write" ELSE "rate"

-----------------------------------------------------------------------------
(* The requests, up to the first wait.                                        *)

\* Mutant: the form is not compared with the setting.
AgreesAlways(shown) == shown \in Currency
\* home_currency_at_load. A form that shows another one comes back for review.
Agrees(shown) == shown = home

\* A request that needs a rate, for a new expense (x is None) or for x.
AskRate(s, x, amount, native, shown) ==
    session' = [session EXCEPT ![s] =
        [stage |-> Stage(native, home), x |-> x, old |-> IF x = None THEN None ELSE row[x],
         new |-> Awaiting(amount, native, home), shown |-> shown,
         age |-> 0, night |-> FALSE]]

\* create_expense.
Create(s, shown, amount, native) ==
    /\ Turn
    /\ s \notin Busy /\ Agrees(shown)
    /\ AskRate(s, None, amount, native, shown)
    /\ UNCHANGED <<home, row, cache, origin, crossed>>

\* _maybe_create_expense of a confirm: no form, so nothing to compare.
Book(s, amount, native) ==
    /\ Turn
    /\ s \notin Busy
    /\ AskRate(s, None, amount, native, home)
    /\ UNCHANGED <<home, row, cache, origin, crossed>>

\* Mutant: a new amount is converted to what is the home currency now.
EditedNow(old, amount) ==
    [old EXCEPT !.amount = amount, !.home = home,
                !.homeMinor = Recompute(amount, old.currency, home, old.rate)]

\* update_expense with the currency it has: the frozen rate stays, and an
\* amount that stays is not converted again.
Edited(old, amount) ==
    IF amount = old.amount THEN old
    ELSE [old EXCEPT !.amount = amount,
                     !.homeMinor = Recompute(amount, old.currency, old.home, old.rate)]

\* update_expense.
Edit(s, x, shown, amount, native) ==
    /\ Turn
    /\ s \notin Busy /\ x \in Stored /\ Agrees(shown)
    /\ IF native = row[x].currency
       THEN session' = [session EXCEPT ![s] =
                [stage |-> "write", x |-> x, old |-> row[x], new |-> Edited(row[x], amount),
                 shown |-> origin[x].shown, age |-> origin[x].age, night |-> FALSE]]
       ELSE AskRate(s, x, amount, native, shown)
    /\ UNCHANGED <<home, row, cache, origin, crossed>>

-----------------------------------------------------------------------------
(* fx.py.                                                                     *)

\* Mutant: a currency the service does not have is not missed.
GotAny(s, table, age) ==
    session' = [session EXCEPT ![s] =
        [@ EXCEPT !.stage = "write", !.age = age,
                  !.new = Freeze(@.amount, @.currency, @.home, table[@.home])]]

\* The request goes on with a rate, or is answered that there is none.
Got(s, table, age) ==
    LET new == session[s].new
        rate == table[new.home]
    IN  session' = [session EXCEPT ![s] =
            IF rate = 0 THEN Idle
            ELSE [@ EXCEPT !.stage = "write", !.age = age,
                           !.new = Freeze(new.amount, new.currency, new.home, rate)]]

\* get_cached_rates, or the request to the service leaves.
Lookup(s) ==
    /\ session[s].stage = "rate"
    /\ LET held == cache[session[s].new.currency]
       IN  IF held # None THEN Got(s, held.table, held.age)
           ELSE session' = [session EXCEPT ![s].stage = "fetch"]
    /\ UNCHANGED <<home, row, cache, origin, crossed, turns>>

\* The answer is cached under the key of the day it arrives on.
Answer(s, table) ==
    /\ session[s].stage = "fetch"
    /\ cache' = [cache EXCEPT ![session[s].new.currency] =
                    [table |-> table, age |-> session[s].age]]
    /\ Got(s, table, session[s].age)
    /\ UNCHANGED <<home, row, origin, crossed, turns>>

\* FxError: a page tells the user, a confirm skips the expense.
Unavailable(s) ==
    /\ session[s].stage = "fetch"
    /\ session' = [session EXCEPT ![s] = Idle]
    /\ UNCHANGED <<home, row, cache, origin, crossed, turns>>

-----------------------------------------------------------------------------
(* The end of the requests, and the rest.                                     *)

From(s) == [shown |-> session[s].shown, age |-> session[s].age]

\* The INSERT. No request holds the id of a new row.
Insert(s, x) ==
    /\ session[s].stage = "write" /\ session[s].x = None
    /\ x \notin Stored /\ \A r \in Busy : session[r].x # x
    /\ row' = [row EXCEPT ![x] = session[s].new]
    /\ origin' = [origin EXCEPT ![x] = From(s)]
    /\ session' = [session EXCEPT ![s] = Idle]
    /\ UNCHANGED <<home, cache, crossed, turns>>

\* An UPDATE names the columns whose value is not the loaded one.
Column(old, new, now) == IF new = old THEN now ELSE new
Merged(old, new, now) ==
    [amount |-> Column(old.amount, new.amount, now.amount),
     currency |-> Column(old.currency, new.currency, now.currency),
     rate |-> Column(old.rate, new.rate, now.rate),
     home |-> Column(old.home, new.home, now.home),
     homeMinor |-> Column(old.homeMinor, new.homeMinor, now.homeMinor)]

\* The UPDATE; it fails when the row is gone.
Update(s) ==
    /\ session[s].stage = "write" /\ session[s].x # None
    /\ LET x == session[s].x
       IN  IF x \in Stored
           THEN /\ row' = [row EXCEPT ![x] = Merged(session[s].old, session[s].new, @)]
                /\ origin' = [origin EXCEPT ![x] = From(s)]
                /\ crossed' = IF row[x] = session[s].old THEN crossed ELSE crossed \cup {x}
           ELSE UNCHANGED <<row, origin, crossed>>
    /\ session' = [session EXCEPT ![s] = Idle]
    /\ UNCHANGED <<home, cache, turns>>

\* delete_expense.
Delete(x) ==
    /\ Turn
    /\ x \in Stored
    /\ row' = [row EXCEPT ![x] = None]
    /\ crossed' = crossed \ {x}
    /\ UNCHANGED <<home, cache, session, origin>>

\* update_home_currency.
UpdateHome(c) ==
    /\ Turn
    /\ home' = c
    /\ UNCHANGED <<row, cache, session, origin, crossed>>

\* Rates asked before a midnight are a day old after it.
PastMidnight(s) ==
    IF s \in Busy
    THEN [session[s] EXCEPT !.night = TRUE, !.age = IF session[s].stage = "fetch" THEN @ + 1 ELSE @]
    ELSE session[s]

\* Mutant: keys without the date.
SameKeys ==
    /\ Turn /\ \A s \in Busy : ~session[s].night
    /\ session' = [s \in Session |-> PastMidnight(s)]
    /\ cache' = [b \in Currency |->
                    IF cache[b] = None THEN None ELSE [cache[b] EXCEPT !.age = @ + 1]]
    /\ UNCHANGED <<home, row, origin, crossed>>

\* The keys of the new day are not set, those of the old are not read again. A
\* request takes seconds: it meets one midnight at most.
Midnight ==
    /\ Turn /\ \A s \in Busy : ~session[s].night
    /\ session' = [s \in Session |-> PastMidnight(s)]
    /\ cache' = [b \in Currency |-> None]
    /\ UNCHANGED <<home, row, origin, crossed>>

Request(s) ==
    \/ \E amount \in Amount, native \in Currency :
         \/ Book(s, amount, native)
         \/ \E shown \in Currency :
              \/ Create(s, shown, amount, native)
              \/ \E x \in Expense : Edit(s, x, shown, amount, native)
    \/ Lookup(s)
    \/ \E table \in Table : Answer(s, table)
    \/ Unavailable(s)
    \/ \E x \in Expense : Insert(s, x)
    \/ Update(s)

Next ==
    \/ \E s \in Session : Request(s)
    \/ \E x \in Expense : Delete(x)
    \/ \E c \in Currency : UpdateHome(c)
    \/ Midnight

Spec == Init /\ [][Next]_vars

-----------------------------------------------------------------------------
(* Properties.                                                                *)

Row == {d \in Draft : d.rate # 0}

\* Columns, rates and the requests in memory have their types; a request that
\* edits has loaded a row, and no row is written without a rate: update_expense,
\* get_rate.
TypeOK ==
    /\ home \in Currency
    /\ row \in [Expense -> Row \cup {None}]
    /\ cache \in [Currency -> [table : Table, age : Nat] \cup {None}]
    /\ session \in [Session -> [stage : {"idle", "rate", "fetch", "write"},
                                x : Expense \cup {None}, old : Draft \cup {None},
                                new : Draft \cup {None}, shown : Currency,
                                age : Nat, night : BOOLEAN]]
    /\ \A s \in Session : session[s].x # None => session[s].old \in Row
    /\ \A s \in Busy : session[s].new \in Draft
    /\ \A s \in Session : session[s].stage = "write" => session[s].new \in Row
    /\ origin \in [Expense -> [shown : Currency, age : Nat]]
    /\ crossed \subseteq Stored /\ turns \in 0 .. MaxTurns

\* The home amount of a row is its amount at its rate, to half a minor unit.
Nearest(r) ==
    LET exact == r.amount * r.rate * Scale[r.home]
        grain == Unit * Scale[r.currency]
    IN  /\ 2 * (r.homeMinor * grain - exact) <= grain
        /\ 2 * (exact - r.homeMinor * grain) < grain
        /\ r.currency = r.home => r.rate = Unit

\* The silent corruption the design warns of, a row whose amount no longer
\* matches its home equivalent, is in no expense, whatever was edited in which
\* order and whatever the home currency and the rates did meanwhile: save in one
\* that two requests edited at once (update_expense, freeze_fx).
AmountsMatch == \A x \in Stored \ crossed : Nearest(row[x])

\* An expense is in the home currency its form showed, although the setting may
\* change before, while and after its rate is looked up (home_currency_at_load).
FrozenAsShown == \A x \in Stored \ crossed : row[x].home = origin[x].shown

\* A rate is of the day it was taken on, or of the day before when the answer
\* of the service came after midnight and was cached for the new day (_key).
RatesAreRecent == \A x \in Stored \ crossed : origin[x].age <= 1

\* While its currency stays an expense keeps its rate and the home currency it
\* was frozen in, whatever the setting has become and whoever edits the amount.
RateStaysFrozen ==
    [][\A x \in Stored : (x \in Stored' \ crossed' /\ row'[x].currency = row[x].currency)
          => row'[x].rate = row[x].rate /\ row'[x].home = row[x].home]_vars
=============================================================================
