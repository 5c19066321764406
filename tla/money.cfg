SPECIFICATION Spec
CONSTANTS
    usd = usd
    jpy = jpy
    Expense = {x1, x2}
    Session = {s1, s2}
    Currency = {usd, jpy}
    Scale <- MCScale
    Unit = 10
    Amount = {3, 50}
    Table <- MCTable
    Default = usd
    MaxTurns = 6
    None = None
INVARIANTS TypeOK  FrozenAsShown RatesAreRecent
PROPERTIES RateStaysFrozen
SYMMETRY MCSymmetry
CHECK_DEADLOCK FALSE
