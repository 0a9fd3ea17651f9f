\* Every pair of commands at every stage of one incident.
CONSTANTS
    NoUser = NoUser
    NoDispatch = NoDispatch
    Incidents = {i1}
    Dispatches = {d1}
    Controllers = {c1}
    Managers = {}
    Responders = {r1}
    Dispatchable = {r1}
    MaxDecisions = 1
    Attempts = {q1, q2}
    Keys = {k1, k2}
    CrowdedKeys = {}
    Isolation = "REPEATABLE READ"
    Commands = {"acknowledge", "claim", "review", "decide", "assign", "close",
                "accept", "reject", "depart", "en_route", "arrive",
                "start_action", "complete_action"}
    Stages = {"NEW", "ACKNOWLEDGED", "CLAIMED", "UNDER_REVIEW",
              "FALSE_POSITIVE", "DISPATCH_REQUESTED", "DISPATCHED",
              "ON_SCENE", "ACTION_IN_PROGRESS", "ACTION_COMPLETED", "CLOSED"}
    Guesses = {0, 1}
SYMMETRY Symmetry
SPECIFICATION Spec
CHECK_DEADLOCK FALSE
INVARIANTS
    UnlockedReadsCurrent
    
    CopiesFresh
PROPERTIES
    TablesMoveByCommands
