\* Three incidents up to their review, in every order of two ranks; pages of
\* one and of two rows.
CONSTANTS
    NoUser = NoUser
    NoDispatch = NoDispatch
    Incidents = {1, 2, 3}
    Dispatches = {}
    Controllers = {c1}
    Managers = {}
    Responders = {}
    Dispatchable = {}
    MaxDecisions = 0
    Isolations = {"REPEATABLE READ", "READ COMMITTED"}
    Sizes = {1, 2}
    Ranks = {0, 1}
SPECIFICATION ListSpec
CHECK_DEADLOCK FALSE
INVARIANTS
    PageFitsCount
    WalkComplete
