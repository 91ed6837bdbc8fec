SPECIFICATION Spec
CONSTANTS
    Builders = {b1}
    Evaluators = {e1, e2}
    Configs = {c1, c2}
    Leaky = {c2}
    Absent = Absent
    MaxCrashes = 2
SYMMETRY Symmetry
INVARIANTS
    TypeOK
    OpenedOnce
    EvaluatesFrozen
    FreezeIsCoherent
PROPERTY
    ResultsAreFinal
CHECK_DEADLOCK FALSE
