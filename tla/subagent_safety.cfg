SPECIFICATION Spec
CONSTANTS
    None = None
    Customers = {c1, c2}
    Addresses = {a1}
    Emails = {e1, e2}
    Requests = {r1, r2}
    MaxFailures = 1
SYMMETRY IdSymmetry
INVARIANTS TypeOK UniqueEmails AnswerTellsEffect
PROPERTIES Isolation DeletionsAreSeen
