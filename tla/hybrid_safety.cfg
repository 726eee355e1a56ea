SPECIFICATION Spec
CONSTANTS
    None = None
    Customers = {c1, c2}
    Addresses = {a1, a2, a3}
    Columns = {"city"}
    Values = {v1, v2}
    Requests = {r1, r2}
    Operations = {"CreateCustomer", "UpdateCustomer", "DeleteCustomer", "GetCustomer", "ListCustomers", "CreateAddress", "PatchAddress", "ReplaceAddress", "DeleteAddress", "GetAddress", "ListAddresses"}
    MaxAddresses = 1
    MaxFailures = 1
SYMMETRY IdSymmetry
INVARIANTS TypeOK NoOrphans BoundedOvershoot AnswerTellsEffect
PROPERTIES OnlyOwnerTouches ActsAtOnce
