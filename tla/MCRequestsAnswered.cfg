\* Assignment against rejection, with keys that share a gap of the index.
CONSTANTS
    NoUser = NoUser
    NoDispatch = NoDispatch
    Incidents = {i1, i2}
    Dispatches = {d1, d2}
    Controllers = {c1}
    Managers = {}
    Responders = {r1}
    Dispatchable = {r1}
    MaxDecisions = 1
    Attempts = {q1, q2}
    Keys = {k1, k2, k3}
    CrowdedKeys = {k1, k2}
    Isolation = "REPEATABLE READ"
    Commands = {"assign", "reject"}
    Stages = {"DISPATCH_REQUESTED"}
    Guesses = {0}
SPECIFICATION Spec
CHECK_DEADLOCK FALSE
PROPERTIES
    EveryRequestAnswered
