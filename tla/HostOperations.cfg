CONSTANTS
    j1 = j1
    o1 = o1
    o2 = o2
    o3 = o3
    o4 = o4
    p1 = p1
    Jobs <- OneJob
    Tokens <- TwoTokens
    JobOf <- AllOfOneJob
    MaxExt = 2
    Ops = {o1, o2, o3, o4}
    Kind <- OneOfEachKind
    Contents = {p1, p2}
    Ids = {i1, i2}
    Threads = {c1, c2}
    None = None
SPECIFICATION MCSpec
SYMMETRY Symmetry
INVARIANTS TypeOK EffectsHappenOnce JournalIsTrue GuardedEffectIsCurrent AnswersAreAccepted
PROPERTIES ResultsAreFencedAndFinal
