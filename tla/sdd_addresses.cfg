SPECIFICATION Spec
CONSTANTS
    c1 = c1  c2 = c2  c3 = c3  a1 = a1  a2 = a2  a3 = a3
    e1 = e1  e2 = e2  i1 = i1  i2 = i2
    r1 = r1  r2 = r2  r3 = r3
    None = None
    Customers = {c1}
    Addresses = {a1, a2}
    Emails = {e1}
    Idents = {i1}
    Requests = {r1, r2, r3}
    Operations = {"DeleteCustomer", "CreateAddress", "UpdateAddress", "DeleteAddress"}
    MaxAddresses = 1
    MaxFailures = 1
    SeedCustomers <- OneCustomer
    SeedAddresses <- NoAddress
SYMMETRY AddressSymmetry
INVARIANTS AddressLimit NoOrphans NoRowDeadlock AckedDeletionHolds
PROPERTIES RowsPersist ActsAtCommit
