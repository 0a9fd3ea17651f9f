\* One incident through its whole life, with three requests under way at once;
\* clients send the versions they were shown, or guess the next.
CONSTANTS
    NoUser = NoUser
    NoDispatch = NoDispatch
    Incidents = {i1}
    Dispatches = {d1, d2}
    Controllers = {c1}
    Managers = {}
    Responders = {r1}
    Dispatchable = {r1}
    MaxDecisions = 1
    Requests = {q1, q2, q3}
    Ahead = {0, 1}
    MaxClock = 2
SYMMETRY Symmetry
SPECIFICATION TimelineSpec
CHECK_DEADLOCK FALSE
INVARIANTS
    HonestNeverTooEarly
PROPERTIES
    StampsOrdered
