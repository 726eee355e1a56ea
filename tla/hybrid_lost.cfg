SPECIFICATION Spec
CONSTANTS
    None = None
    Customers = {c1}
    Addresses = {a1}
    Columns = {"city", "postal_code"}
    Values = {v1, v2}
    Requests = {r1, r2}
    Operations = {"CreateCustomer", "CreateAddress", "PatchAddress"}
    MaxAddresses = 1
    MaxFailures = 0
PROPERTY DocPatchKeepsOthers
