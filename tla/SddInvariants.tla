--------------------------- MODULE SddInvariants ----------------------------
(***************************************************************************)
(* The inductive strengthening of the safety properties of SddService.     *)
(***************************************************************************)
EXTENDS SddProperties

Creations == {"CreateCustomer", "CreateAddress"}

\* The operations whose requests pass through a point.
OpsAt(p) ==
    CASE p = "findEmail"       -> {"CreateCustomer", "UpdateCustomer"}
      [] p = "findIdent"       -> {"CreateCustomer", "UpdateCustomer"}
      [] p = "insertCustomer"  -> {"CreateCustomer"}
      [] p = "addAddress"      -> Creations
      [] p = "getCustomer"     -> AllOperations \ Creations
      [] p = "getAddress"      -> {"UpdateAddress", "DeleteAddress"}
      [] p = "reload"          -> {"UpdateCustomer", "DeleteCustomer",
                                   "UpdateAddress", "DeleteAddress"}
      [] p = "writeCustomer"   -> {"UpdateCustomer", "DeleteCustomer"}
      [] p = "writeAddress"    -> {"UpdateAddress", "DeleteAddress"}
      [] p \in {"emailIndex", "identIndex"} ->
             {"CreateCustomer", "UpdateCustomer", "DeleteCustomer"}
      [] p \in {"selectAddresses", "cascade"} -> {"DeleteCustomer"}
      [] p \in {"lockCustomer", "count"} -> {"CreateAddress"}
      [] p = "list"            -> {"UpdateCustomer", "DeleteCustomer", "Read"}
      [] OTHER                 -> AllOperations

\* Points after the customer row of the request was written.
AfterCustomerWrite ==
    {"emailIndex", "identIndex", "addAddress", "selectAddresses", "cascade",
     "list", "respond"}

WritingOps == {"CreateCustomer", "UpdateCustomer", "DeleteCustomer"}

RequestOK(r) ==
    /\ req[r] \in Request
    /\ req[r].op \in OpsAt(pc[r])
    /\ req[r].op \in {"CreateCustomer", "UpdateCustomer"} =>
           req[r].email \in Emails /\ req[r].ident \in Idents
    /\ req[r].op \in {"UpdateAddress", "DeleteAddress"} => req[r].address \in Addresses
    /\ req[r].op \notin Creations => req[r].fresh = {}
    /\ req[r].op = "CreateAddress" => \E a \in Addresses : req[r].fresh = {a}

RequestInv ==
    \A r \in Requests :
        IF pc[r] = "idle" THEN req[r] = NoRequest ELSE RequestOK(r)

\* What the request's local variables hold.
LocalOK(r) ==
    LET c == req[r].customer  a == req[r].address IN
    /\ pc[r] \in {"idle", "respond"} => todo[r] = {}
    /\ req[r].op \in Creations => todo[r] \subseteq req[r].fresh
    /\ pc[r] = "cascade" => \A b \in todo[r] : addresses[b] # None
    /\ pc[r] \in {"findEmail", "findIdent"} /\ req[r].op = "UpdateCustomer"
          => entity[r] \in CustomerRow /\ customers[c] # None
    /\ pc[r] \in {"reload", "writeCustomer"} /\ req[r].op \in {"UpdateCustomer", "DeleteCustomer"}
          => /\ entity[r] \in CustomerRow /\ customers[c] # None
             /\ req[r].op = "DeleteCustomer" => entity[r].status = "DELETED"
    /\ pc[r] = "writeCustomer" => loaded[r] \in CustomerRow
    /\ pc[r] \in {"reload", "writeAddress"} /\ req[r].op \in {"UpdateAddress", "DeleteAddress"}
          => /\ entity[r] \in AddressRow /\ addresses[a] # None
             /\ req[r].op = "DeleteAddress" => entity[r].status = "DELETED"
    /\ pc[r] = "writeAddress" => loaded[r] \in AddressRow

LocalInv == \A r \in Requests : LocalOK(r)

\* Ids in creation are in no row, and in one creation only.
FreshOK(r) ==
    /\ req[r].op = "CreateCustomer" => customers[req[r].customer] = None
    /\ \A a \in req[r].fresh : addresses[a] = None

Apart(r, q) ==
    /\ req[r].op = "CreateCustomer" /\ req[q].op = "CreateCustomer"
          => req[r].customer # req[q].customer
    /\ req[r].fresh \cap req[q].fresh = {}

FreshInv ==
    /\ \A r \in Requests : FreshOK(r)
    /\ \A r, q \in Requests : r # q => Apart(r, q)

\* A transaction holds versions and locks only of what its request is about,
\* and only from the statement that wrote or locked them on.
WriteSetOK(r) ==
    /\ \A c \in Customers : newCustomers[r][c] # None =>
          /\ pc[r] \in AfterCustomerWrite
          /\ c = req[r].customer /\ c \in lockedCustomers[r]
          /\ req[r].op \in WritingOps
          /\ pc[r] = "respond" => code[r] = "OK"
    /\ pc[r] \in {"emailIndex", "identIndex"} => newCustomers[r][req[r].customer] # None
    /\ \A c \in lockedCustomers[r] :
          /\ c = req[r].customer
          /\ pc[r] \in AfterCustomerWrite \cup {"count"}
          /\ req[r].op \in WritingOps \cup {"CreateAddress"}
          /\ req[r].op # "CreateCustomer" => customers[c] # None
    /\ \A a \in Addresses : newAddresses[r][a] # None =>
          /\ pc[r] \in {"addAddress", "cascade", "list", "respond"}
          /\ pc[r] = "respond" => code[r] = "OK"
          /\ a \notin todo[r]
          /\ IF req[r].op \in Creations THEN a \in req[r].fresh ELSE addresses[a] # None

WriteSetInv == \A r \in Requests : WriteSetOK(r)

\* Two transactions never write or lock the same row.
Disjoint(r, q) ==
    /\ lockedCustomers[r] \cap lockedCustomers[q] = {}
    /\ \A a \in Addresses : newAddresses[r][a] = None \/ newAddresses[q][a] = None

StructureInv ==
    /\ TypeOK /\ RequestInv /\ LocalInv /\ FreshInv /\ WriteSetInv
    /\ \A r, q \in Requests : r # q => Disjoint(r, q)

-----------------------------------------------------------------------------
(* Why UniqueKeys holds.                                                   *)

HasVersion(r) == \E c \in Customers : newCustomers[r][c] # None

\* A transaction has entered its new key in the indexes it already passed, and
\* in both before its response exists.
IndexOK(r) ==
    indexed[r] = CASE ~HasVersion(r) \/ pc[r] = "emailIndex" -> {}
                   [] HasVersion(r) /\ pc[r] = "identIndex"  -> {"email"}
                   [] OTHER                                  -> Keys

\* An indexed key is no other row's, committed ...
Unrivalled(r) ==
    \A c, d \in Customers : \A k \in indexed[r] :
        c # d /\ newCustomers[r][c] # None /\ customers[d] # None
            => newCustomers[r][c][k] # customers[d][k]

\* ... or indexed by another transaction.
NoRivals(r, q) ==
    \A c, d \in Customers : \A k \in indexed[r] \cap indexed[q] :
        c # d /\ newCustomers[r][c] # None /\ newCustomers[q][d] # None
            => newCustomers[r][c][k] # newCustomers[q][d][k]

KeysInv ==
    /\ UniqueKeys
    /\ \A r \in Requests : IndexOK(r) /\ Unrivalled(r)
    /\ \A r, q \in Requests : r # q => NoRivals(r, q)

-----------------------------------------------------------------------------
(* Why addresses stay with their customers, and within the limit.          *)

\* The request has been refused nothing.
Proceeds(r) == pc[r] # "respond" \/ code[r] = "OK"

\* Of a creation only what it said itself is published, all of it; the customer
\* of a new address is locked as long as the address is not committed, and has
\* room for it.
CreationOK(r) ==
    LET c == req[r].customer IN
    /\ req[r].op \in Creations => \A a \in Addresses :
          newAddresses[r][a] # None => newAddresses[r][a] = [owner |-> c, status |-> "ACTIVE"]
    /\ req[r].op = "CreateCustomer" /\ Proceeds(r) =>
          /\ Cardinality(req[r].fresh) <= MaxAddresses
          /\ \A a \in req[r].fresh : a \in todo[r] \/ newAddresses[r][a] # None
          /\ pc[r] = "findIdent" => code[r] # "OK"
          /\ pc[r] \in AfterCustomerWrite =>
                newCustomers[r][c] # None /\ newCustomers[r][c].status = "ACTIVE"
    /\ req[r].op = "CreateAddress" /\ Proceeds(r) =>
          /\ pc[r] \in {"count", "addAddress", "respond"} =>
                c \in lockedCustomers[r] /\ VisibleCustomer(c)
          /\ pc[r] \in {"addAddress", "respond"} =>
                Cardinality(ActiveOf(c) \ revived) < MaxAddresses

\* An update never hides a customer.
UpdateOK(r) ==
    LET c == req[r].customer IN
    req[r].op = "UpdateCustomer" =>
        /\ pc[r] \in {"findEmail", "findIdent", "reload", "writeCustomer"} => entity[r].status = "ACTIVE"
        /\ newCustomers[r][c] # None /\ VisibleCustomer(c) => newCustomers[r][c].status = "ACTIVE"

\* A deletion of a customer keeps it locked while it marks its addresses, and
\* misses none of those that no update brought back.
CascadeOK(r) ==
    LET c == req[r].customer IN
    req[r].op = "DeleteCustomer" =>
        /\ \A a \in Addresses : newAddresses[r][a] # None =>
               newAddresses[r][a].status = "DELETED" /\ addresses[a].owner = c
        /\ \A a \in todo[r] : addresses[a].owner = c
        /\ pc[r] # "cascade" => todo[r] = {}
        /\ Proceeds(r) /\ pc[r] \in {"emailIndex", "identIndex", "selectAddresses", "cascade", "list", "respond"} =>
               newCustomers[r][c] # None
        /\ Proceeds(r) /\ pc[r] \in {"cascade", "list", "respond"} =>
               \A a \in ActiveOf(c) \ revived : a \in todo[r] \/ newAddresses[r][a] # None

\* A deletion of an address that reads it as deleted already was overtaken by
\* another one, and only an update can undo that.
DeletionOK(r) ==
    LET a == req[r].address IN
    req[r].op = "DeleteAddress" =>
        /\ pc[r] = "writeAddress" /\ loaded[r].status = "DELETED" =>
               addresses[a].status = "DELETED" \/ a \in revived
        /\ pc[r] = "respond" /\ code[r] = "OK" =>
               /\ newAddresses[r][a] # None
               /\ newAddresses[r][a].status = "DELETED" \/ a \in revived

\* No transaction gives an address to another customer.
OwnerOK(r) ==
    \A a \in Addresses : newAddresses[r][a] # None /\ addresses[a] # None =>
        newAddresses[r][a].owner = addresses[a].owner

RoleOK(r) == CreationOK(r) /\ UpdateOK(r) /\ CascadeOK(r) /\ DeletionOK(r) /\ OwnerOK(r)

AddressInv == NoOrphans /\ AddressLimit /\ \A r \in Requests : RoleOK(r)
=============================================================================
