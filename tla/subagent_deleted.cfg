SPECIFICATION Spec
CONSTANTS
    None = None
    Customers = {c1}
    Addresses = {a1}
    Emails = {e1}
    Requests = {r1, r2}
    MaxFailures = 0
INVARIANT DocDeleted
