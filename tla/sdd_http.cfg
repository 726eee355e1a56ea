SPECIFICATION Spec
CONSTANTS
    c1 = c1  c2 = c2  c3 = c3  a1 = a1  r1 = r1  r2 = r2
    None = None
    Words = {"w1", "w2", "m1", "m2", "long", "longm", "nul", "nulm"}
    Blank = "blank"
    EmailWords = {"m1", "m2", "longm", "nulm"}
    LongWords = {"long", "longm"}
    UnsendableWords = {"nul", "nulm"}
    AddressSegments = {"addresses", "addresses1"}
    MaxAddresses = 1
    AddressFields <- MCAddressFields
    Ids <- MCIds
    AddressIds = {a1}
    Requests = {r1, r2}
    Sends <- MCSends
    DefaultPageSize = 2
    MaxPageSize = 3
    MaxBigint = 15
INVARIANTS TypeOK EveryBadFieldNamed OneStatusPerAnswer EnvelopeNamesOperation
    ServerErrorsExplained EmailsDifferInSubstance PageAgreesWithTotal
