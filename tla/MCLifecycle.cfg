\* Two incidents, each of which may be taken over by a manager, compete for
\* three responders of whom one can never be assigned; three requests are
\* enough for two rejections before one is accepted; decisions may follow each
\* other on an incident.
CONSTANTS
    NoUser = NoUser
    NoDispatch = NoDispatch
    Incidents = {i1, i2}
    Dispatches = {d1, d2, d3}
    Controllers = {c1, m1}
    Managers = {m1}
    Responders = {r1, r2, r3}
    Dispatchable = {r1, r2}
    MaxDecisions = 2
SYMMETRY Symmetry
SPECIFICATION Spec
CHECK_DEADLOCK FALSE
INVARIANTS
    AttemptChain
    ClosureJustified
    DecisionChain
    HistoryIsPath
    OutboxAccountsForVersions
    NeverStranded
    IncidentMatchesDispatch
    NoDoubleBooking
    BusyWhileActive
    OwnershipAgrees
    AvailableMeansAssignable
    BoardsAgree
PROPERTIES
    VersionGuardsRow
    FinalIsFinal
    ImplementsBooking
