SPECIFICATION Spec
CONSTANTS
    e1 = e1
    e2 = e2
    c1 = c1
    c2 = c2
    Builders = {b1}
    Evaluators = {e1, e2}
    Publishers = {p1}
    Configs = {c1, c2}
    Absent = Absent
    MaxCrashes = 1
    MaxEdits = 1
SYMMETRY Symmetry
INVARIANTS
    TypeOK
    OpenedAtMostOnce
    EvaluatedFreezeIsBlind
    OriginalIsKept
    FrozenBundleReproduces
    PassIsOneRun
CHECK_DEADLOCK FALSE
