CONSTANTS
    j1 = j1
    o1 = o1
    o2 = o2
    o3 = o3
    o4 = o4
    p1 = p1
    Jobs <- OneJob
    Tokens <- TwoTokens
    JobOf <- AllOfOneJob
    MaxExt = 1
    Ops = {o1, o2}
    Kind <- PlainAndYielding
    Contents = {p1}
    Ids = {i1, i2}
    Threads = {c1, c2}
    None = None
SPECIFICATION Spec
SYMMETRY Symmetry
INVARIANTS TakeoverWaitsForEffects
