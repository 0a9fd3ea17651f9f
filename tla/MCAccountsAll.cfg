\* Any three requests to a member of the public and an operator who may not
\* withdraw.
CONSTANTS
    Established = {u1, o1}
    Operators = {o1}
    Opened = {s1}
    Attempts = {q1, q2, q3}
    Emails = {e1, e2}
    Passwords = {p1}
    Names = {n1}
    NoOne = NoOne
    Requests = {"register", "login", "refresh", "logout", "update_me", "withdraw", "request_reset", "confirm_reset"}
SYMMETRY Symmetry
SPECIFICATION Spec
CHECK_DEADLOCK FALSE
INVARIANTS
    AuditMatches
    TokenOnce
    LogoutSticks
    SomebodyGoesOn
PROPERTIES
    WithdrawalIsFinal
    ImplementsMembership
