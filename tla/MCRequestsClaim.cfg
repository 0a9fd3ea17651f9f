\* Two controllers race to claim and review one incident; a third request may
\* be a retry of either, or use its key for something else.
CONSTANTS
    NoUser = NoUser
    NoDispatch = NoDispatch
    Incidents = {i1}
    Dispatches = {d1}
    Controllers = {c1, m1}
    Managers = {m1}
    Responders = {r1}
    Dispatchable = {r1}
    MaxDecisions = 1
    Attempts = {q1, q2, q3}
    Keys = {k1, k2}
    CrowdedKeys = {}
    Isolation = "READ COMMITTED"
    Commands = {"claim", "review"}
    Stages = {"ACKNOWLEDGED"}
    Guesses = {0, 1}
SYMMETRY Symmetry
SPECIFICATION Spec
CHECK_DEADLOCK FALSE
INVARIANTS
    AnswersTrue
    OneEffectPerKey
PROPERTIES
    ImplementsOncePerKey
