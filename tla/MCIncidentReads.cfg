\* One incident through its whole life, with a re-dispatch and a decision that
\* is superseded; its detail is read over and over, at either isolation.
CONSTANTS
    NoUser = NoUser
    NoDispatch = NoDispatch
    Incidents = {i1}
    Dispatches = {d1, d2}
    Controllers = {c1}
    Managers = {}
    Responders = {r1, r2}
    Dispatchable = {r1, r2}
    MaxDecisions = 2
    Isolations = {"REPEATABLE READ", "READ COMMITTED"}
SYMMETRY Symmetry
SPECIFICATION ReadSpec
CHECK_DEADLOCK FALSE
INVARIANTS
    ShownStateStillCurrent
    DetailTellsOneStory
