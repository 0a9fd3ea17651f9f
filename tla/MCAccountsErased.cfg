\* A withdrawal and another request of the same person.
CONSTANTS
    Established = {u1}
    Operators = {}
    Opened = {s1}
    Attempts = {q1, q2}
    Emails = {e1}
    Passwords = {p1}
    Names = {n1, n2}
    NoOne = NoOne
    Requests = {"update_me", "withdraw", "request_reset"}
SPECIFICATION Spec
CHECK_DEADLOCK FALSE
INVARIANTS
    WithdrawnIsErased
