SPECIFICATION Spec
CONSTANTS
    c1 = c1  c2 = c2  c3 = c3  a1 = a1  a2 = a2  a3 = a3
    e1 = e1  e2 = e2  i1 = i1  i2 = i2
    r1 = r1  r2 = r2  r3 = r3
    None = None
    Customers = {c1, c2}
    Addresses = {a1, a2}
    Emails = {e1, e2}
    Idents = {i1, i2}
    Requests = {r1, r2}
    Operations = {"CreateCustomer", "DeleteCustomer", "UpdateCustomer", "Read"}
    MaxAddresses = 2
    MaxFailures = 0
    SeedCustomers <- NoCustomer
    SeedAddresses <- NoAddress
SYMMETRY CustomerSymmetry
INVARIANTS TypeOK UniqueKeys RejectedLeaveNothing
PROPERTIES CreatedWhole ActsAtCommit
