------------------------ MODULE SddRefinementProofs -------------------------
(***************************************************************************)
(* SddService implements Registry, for every value of the constants.       *)
(***************************************************************************)
EXTENDS SddRefinement, SddAddressProofs

-----------------------------------------------------------------------------
(* What the statements of a request prepare.                               *)

\* Where a statement leaves its request.
LEMMA Endings ==
    ASSUME TypeOK, NEW r \in Requests
    PROVE  /\ \A p : Goto(r, p) => pc'[r] = p
           /\ \A e : Reply(r, e) => /\ pc'[r] = "respond" /\ code'[r] = e
                                    /\ loaded'[r] = None /\ todo'[r] = {}
BY DEF Reply, Goto, TypeOK, RequestTypeOK

\* Other requests keep their drafts while nothing is committed.
LEMMA OtherDrafts ==
    ASSUME NEW q \in Requests, SameRequest(q), DraftOK(q), UNCHANGED <<customers, addresses>>
    PROVE  DraftOK(q)'
<1>1. CustomerDraftOK(q)'
  BY DEF SameRequest, DraftOK, CustomerDraftOK, ColumnOK, WantedRow, WantedStatus, Proceeds
<1>2. AddressDraftOK(q)'
  BY DEF SameRequest, DraftOK, AddressDraftOK, ColumnOK, WantedRow, WantedStatus
<1> QED
  BY <1>1, <1>2 DEF SameRequest, DraftOK

\* A step that leaves its request without versions, before the writes or after
\* a refusal.
LEMMA BareDraft ==
    ASSUME NEW r \in Requests, RequestOK(r)', WriteSetOK(r)',
           \/ pc'[r] \notin AfterCustomerWrite
           \/ pc'[r] = "respond" /\ code'[r] # "OK",
           loaded'[r] # None => req'[r].op \in Rewrites /\ pc'[r] \in {"writeCustomer", "writeAddress"},
           pc'[r] = "findIdent" => code'[r] \in {"NONE", "ERR-002"},
           pc'[r] \notin {"findIdent", "respond"} => code'[r] = "NONE",
           req'[r].op = "UpdateCustomer" /\ pc'[r] \in {"reload", "writeCustomer"}
              => entity'[r] = WantedRow(req'[r]),
           req'[r].op \in {"UpdateAddress", "DeleteAddress"} /\ pc'[r] \in {"reload", "writeAddress"}
              => /\ addresses'[req'[r].address].owner = req'[r].customer
                 /\ entity'[r].status = WantedStatus(req'[r]),
           req'[r].op = "CreateAddress" /\ pc'[r] # "respond" => todo'[r] = req'[r].fresh
    PROVE  DraftOK(r)'
<1>1. req'[r].customer \in Customers
  BY DEF RequestOK, Request
<1>2. req'[r].op \in {"UpdateAddress", "DeleteAddress"} => req'[r].address \in Addresses
  BY DEF RequestOK
<1>3. /\ \A c \in Customers : newCustomers'[r][c] = None
      /\ \A a \in Addresses : newAddresses'[r][a] = None
  BY DEF WriteSetOK, AfterCustomerWrite
<1>4. CustomerDraftOK(r)'
  BY <1>1, <1>3 DEF CustomerDraftOK, Proceeds, AfterCustomerWrite
<1>5. AddressDraftOK(r)'
  BY <1>1, <1>2, <1>3 DEF AddressDraftOK, AfterCustomerWrite
<1> QED
  BY <1>4, <1>5 DEF DraftOK, AfterCustomerWrite

\* A request that is refused.
LEMMA RefusedDraft ==
    ASSUME StructureInv, NEW r \in Requests, Statement(r) \/ StatementFails(r),
           NEW e, e # "OK", Reply(r, e)
    PROVE  DraftOK(r)'
<1>1. RequestOK(r)' /\ WriteSetOK(r)'
  BY RequestStep, WriteSetStep DEF StructureInv
<1>2. pc'[r] = "respond" /\ code'[r] # "OK" /\ loaded'[r] = None
  BY Endings DEF StructureInv
<1> QED
  BY <1>1, <1>2, BareDraft

\* Lookups prepare the entity as the request wants it.
LEMMA LookupDraft ==
    ASSUME StructureInv, NEW r \in Requests, RoleOK(r), DraftOK(r),
           \/ GetCustomer(r) \/ GetAddress(r) \/ FindByEmail(r) \/ FindByIdentification(r)
           \/ LockCustomer(r) \/ CountActive(r) \/ Reload(r)
    PROVE  DraftOK(r)'
<1> DEFINE c == req[r].customer  a == req[r].address  op == req[r].op
<1> USE DEF StructureInv, TypeOK, RequestTypeOK
<1>1. UNCHANGED <<customers, addresses, req>> /\ RequestOK(r)' /\ WriteSetOK(r)'
  BY StatementFrame, RequestStep, WriteSetStep DEF Statement
<1>2. RequestOK(r) /\ op \in OpsAt(pc[r]) /\ c \in Customers /\ op \in AllOperations
  BY RequestFields DEF RequestOK, GetCustomer, GetAddress, FindByEmail, FindByIdentification,
     LockCustomer, CountActive, Reload
<1>3. ASSUME NEW e, e # "OK", Reply(r, e)
      PROVE  DraftOK(r)'
  BY <1>3, RefusedDraft DEF Statement
<1>4. CASE GetCustomer(r)
  <2>1. pc[r] = "getCustomer" /\ loaded[r] = None /\ code[r] = "NONE"
    BY <1>4 DEF GetCustomer, DraftOK
  <2>2. CASE Reply(r, "ERR-003")
    BY <1>3, <2>2
  <2>3. CASE pc'[r] \in {"findEmail", "reload", "list", "getAddress"} /\ UNCHANGED <<loaded, todo, code>>
    <3>1. pc'[r] = "reload" => op = "DeleteCustomer"
      BY <1>4, <2>1, <2>3, Endings DEF GetCustomer
    <3>2. CASE pc'[r] # "list"
      BY <1>1, <1>2, <2>1, <2>3, <3>1, <3>2, BareDraft DEF OpsAt, Creations, AfterCustomerWrite
    <3>3. CASE pc'[r] = "list"
      <4>1. op = "Read"
        BY <1>4, <2>1, <3>3, Endings DEF GetCustomer
      <4>2. \A b \in Addresses : newAddresses'[r][b] = None
        BY <1>4, <2>1 DEF GetCustomer, Reading, storeVars, WriteSetInv, WriteSetOK
      <4>3. CustomerDraftOK(r)' /\ AddressDraftOK(r)'
        BY <1>1, <4>1, <4>2 DEF CustomerDraftOK, AddressDraftOK
      <4> QED
        BY <1>1, <2>1, <2>3, <3>3, <4>1, <4>3 DEF DraftOK, Rewrites
    <3> QED
      BY <3>2, <3>3
  <2> QED
    BY <1>4, <2>2, <2>3, Endings DEF GetCustomer
<1>5. CASE GetAddress(r)
  <2> DEFINE wanted == IF op = "DeleteAddress" THEN "DELETED" ELSE "ACTIVE"
  <2>1. pc[r] = "getAddress" /\ loaded[r] = None /\ code[r] = "NONE"
          /\ op \in {"UpdateAddress", "DeleteAddress"} /\ a \in Addresses
    BY <1>2, <1>5 DEF GetAddress, DraftOK, OpsAt, RequestOK
  <2>2. CASE AddressError(req[r]) # "NONE"
    <3>1. AddressError(req[r]) # "OK"
      BY DEF AddressError
    <3> QED
      BY <1>3, <1>5, <2>2, <3>1 DEF GetAddress
  <2>3. CASE AddressError(req[r]) = "NONE"
    <3>1. VisibleAddress(a) /\ addresses[a].owner = c
      BY <2>3 DEF AddressError
    <3>2. addresses[a] \in AddressRow
      BY <2>1, <3>1 DEF VisibleAddress, StoreTypeOK
    <3>3. entity'[r] = [addresses[a] EXCEPT !.status = wanted] /\ UNCHANGED <<loaded, todo, code>>
              /\ pc'[r] = "reload"
      BY <1>5, <2>3, Endings DEF GetAddress
    <3>4. entity'[r].status = WantedStatus(req[r])
      BY <2>1, <3>2, <3>3 DEF AddressRow, WantedStatus
    <3> QED
      BY <1>1, <2>1, <3>1, <3>3, <3>4, BareDraft DEF AfterCustomerWrite
  <2> QED
    BY <2>2, <2>3
<1>6. CASE FindByEmail(r)
  <2>1. pc'[r] = "findIdent" /\ code'[r] \in {"NONE", "ERR-002"} /\ loaded'[r] = loaded[r] /\ pc[r] = "findEmail"
    BY <1>6, Endings DEF FindByEmail
  <2>2. op \in {"CreateCustomer", "UpdateCustomer"}
    BY <1>2, <2>1 DEF OpsAt
  <2> QED
    BY <1>1, <2>1, <2>2, BareDraft DEF AfterCustomerWrite, DraftOK
<1>7. CASE FindByIdentification(r)
  <2>1. pc[r] = "findIdent" /\ code[r] \in {"NONE", "ERR-002"} /\ loaded[r] = None
    BY <1>7 DEF FindByIdentification, DraftOK
  <2>2. CASE Reply(r, IF code[r] # "NONE" THEN code[r] ELSE "ERR-008")
    BY <1>3, <2>1, <2>2
  <2>3. CASE code[r] = "NONE" /\ op = "CreateCustomer" /\ pc'[r] = "insertCustomer" /\ UNCHANGED <<loaded, code>>
    BY <1>1, <2>1, <2>3, BareDraft DEF AfterCustomerWrite
  <2>4. CASE /\ code[r] = "NONE" /\ op = "UpdateCustomer" /\ pc'[r] = "reload" /\ UNCHANGED <<loaded, code>>
             /\ entity' = [entity EXCEPT ![r].email = req[r].email, ![r].ident = req[r].ident]
    <3>1. entity[r] \in CustomerRow /\ entity[r].status = "ACTIVE"
      BY <2>1, <2>4 DEF LocalInv, LocalOK, RoleOK, UpdateOK
    <3>2. entity'[r] = [entity[r] EXCEPT !.email = req[r].email, !.ident = req[r].ident]
      BY <2>4
    <3>3. entity'[r] = WantedRow(req[r])
      BY <2>4, <3>1, <3>2 DEF CustomerRow, WantedRow, WantedStatus
    <3> QED
      BY <1>1, <2>1, <2>4, <3>3, BareDraft DEF AfterCustomerWrite
  <2> QED
    BY <1>7, <2>1, <2>2, <2>3, <2>4, Endings DEF FindByIdentification
<1>8. CASE LockCustomer(r)
  <2>1. op = "CreateAddress" /\ loaded[r] = None /\ code[r] = "NONE" /\ todo[r] = req[r].fresh
    BY <1>2, <1>8 DEF LockCustomer, OpsAt, DraftOK, AddressDraftOK
  <2>2. CASE pc'[r] = "count" /\ UNCHANGED <<loaded, todo, code>>
    BY <1>1, <2>1, <2>2, BareDraft DEF AfterCustomerWrite
  <2> QED
    BY <1>3, <1>8, <2>2, Endings DEF LockCustomer
<1>9. CASE CountActive(r)
  <2>1. op = "CreateAddress" /\ loaded[r] = None /\ code[r] = "NONE" /\ todo[r] = req[r].fresh
    BY <1>2, <1>9 DEF CountActive, OpsAt, DraftOK, AddressDraftOK
  <2>2. CASE pc'[r] = "addAddress" /\ UNCHANGED <<loaded, todo, code>>
    <3>1. \A d \in Customers : newCustomers'[r][d] = None
      BY <1>9 DEF CountActive, Reading, storeVars, WriteSetInv, WriteSetOK, AfterCustomerWrite
    <3>2. CustomerDraftOK(r)' /\ AddressDraftOK(r)'
      BY <1>1, <2>1, <2>2 DEF CustomerDraftOK, AddressDraftOK
    <3> QED
      BY <1>1, <2>1, <2>2, <3>2 DEF DraftOK, Rewrites
  <2> QED
    BY <1>3, <1>9, <2>2, Endings DEF CountActive
<1>10. CASE Reload(r)
  <2>1. /\ pc[r] = "reload" /\ code[r] = "NONE" /\ op \in Rewrites /\ UNCHANGED <<entity, todo, code>>
        /\ pc'[r] \in {"writeCustomer", "writeAddress"}
    BY <1>10, Endings DEF Reload, DraftOK, Rewrites
  <2>2. op = "UpdateCustomer" => entity[r] = WantedRow(req[r])
    BY <2>1 DEF DraftOK, CustomerDraftOK
  <2>3. op \in {"UpdateAddress", "DeleteAddress"} => addresses[a].owner = c /\ entity[r].status = WantedStatus(req[r])
    BY <2>1 DEF DraftOK, AddressDraftOK
  <2> QED
    BY <1>1, <2>1, <2>2, <2>3, BareDraft DEF AfterCustomerWrite, Rewrites
<1> QED
  BY <1>4, <1>5, <1>6, <1>7, <1>8, <1>9, <1>10

\* A column that the ORM merges is as wanted, or as the newest row has it.
LEMMA MergedColumn ==
    ASSUME NEW k, NEW newest, NEW old, NEW new
    PROVE  \/ Merged(k, newest, old, new) = new[k]
           \/ Merged(k, newest, old, new) = newest[k] /\ old[k] = new[k]
BY DEF Merged

\* The INSERT and the UPDATE of a customer row prepare it as the request wants it.
LEMMA WriteCustomerDraft ==
    ASSUME StructureInv, NEW r \in Requests, RoleOK(r), DraftOK(r),
           InsertCustomer(r) \/ UpdateCustomerRow(r)
    PROVE  DraftOK(r)'
<1> DEFINE c == req[r].customer  op == req[r].op
<1> USE DEF StructureInv, TypeOK, RequestTypeOK
<1>1. UNCHANGED <<customers, addresses, req, newAddresses, entity, loaded, todo, code>>
          /\ WriteSetOK(r)' /\ pc'[r] = "emailIndex"
  BY StatementFrame, WriteSetStep, Endings DEF Statement, InsertCustomer, UpdateCustomerRow
<1>2. RequestOK(r) /\ op \in OpsAt(pc[r]) /\ c \in Customers
  BY RequestFields DEF RequestOK, InsertCustomer, UpdateCustomerRow
<1>3. pc[r] \in {"insertCustomer", "writeCustomer"} /\ code[r] = "NONE"
  BY DEF InsertCustomer, UpdateCustomerRow, DraftOK
<1>4. \A b \in Addresses : newAddresses'[r][b] = None
  BY <1>1, <1>3 DEF WriteSetInv, WriteSetOK
<1>5. AddressDraftOK(r)'
  BY <1>1, <1>2, <1>3, <1>4 DEF AddressDraftOK, OpsAt
<1>6. newCustomers'[r][c] # None
  BY <1>1 DEF WriteSetOK
<1>7. CASE InsertCustomer(r)
  <2>1. op = "CreateCustomer" /\ loaded[r] = None
    BY <1>2, <1>7 DEF InsertCustomer, OpsAt, DraftOK
  <2>2. newCustomers'[r][c] = WantedRow(req[r])
    BY <1>2, <1>7, <2>1 DEF InsertCustomer, WriteCustomer, StoreTypeOK, WantedRow, WantedStatus
  <2>3. CustomerDraftOK(r)'
    BY <1>1, <2>1, <2>2 DEF CustomerDraftOK
  <2> QED
    BY <1>1, <1>3, <1>5, <2>1, <2>3 DEF DraftOK, Rewrites
<1>8. CASE UpdateCustomerRow(r)
  <2> DEFINE col(k) == Merged(k, customers[c], loaded[r], entity[r])
  <2>1. /\ op \in {"UpdateCustomer", "DeleteCustomer"} /\ loaded[r] \in CustomerRow
        /\ op = "UpdateCustomer" => entity[r] = WantedRow(req[r])
        /\ op = "DeleteCustomer" => entity[r].status = "DELETED"
    BY <1>2, <1>8 DEF UpdateCustomerRow, OpsAt, DraftOK, CustomerDraftOK, LocalInv, LocalOK
  <2>2. newCustomers'[r][c] = [status |-> col("status"), email |-> col("email"), ident |-> col("ident")]
    BY <1>2, <1>8 DEF UpdateCustomerRow, WriteCustomer, StoreTypeOK
  <2>3. \A k \in {"status", "email", "ident"} : newCustomers'[r][c][k] = col(k)
    BY <2>2
  <2>4. \A k \in {"status", "email", "ident"} : entity[r][k] = WantedRow(req[r])[k] =>
           \/ newCustomers'[r][c][k] = WantedRow(req[r])[k]
           \/ newCustomers'[r][c][k] = customers[c][k] /\ loaded[r][k] = WantedRow(req[r])[k]
    BY <2>3, MergedColumn
  <2>5. op = "DeleteCustomer" => WantedRow(req[r])["status"] = "DELETED"
    BY DEF WantedRow, WantedStatus
  <2>6. CustomerDraftOK(r)'
    BY <1>1, <1>6, <2>1, <2>4, <2>5 DEF CustomerDraftOK, ColumnOK
  <2> QED
    BY <1>1, <1>3, <1>5, <2>1, <2>6 DEF DraftOK, Rewrites
<1> QED
  BY <1>7, <1>8

\* After the writes of the customer row, the draft of it is as it is.
LEMMA LaterDraft ==
    ASSUME StructureInv, NEW r \in Requests, RoleOK(r), DraftOK(r),
           EnterIndex(r) \/ SelectAddresses(r) \/ CascadeDelete(r) \/ ListAddresses(r)
    PROVE  DraftOK(r)'
<1> DEFINE c == req[r].customer  op == req[r].op
<1> USE DEF StructureInv, TypeOK, RequestTypeOK
<1>1. UNCHANGED <<customers, addresses, req, newCustomers>> /\ RequestOK(r)
  BY StatementFrame, RequestFields
     DEF Statement, EnterIndex, SelectAddresses, CascadeDelete, ListAddresses, Reading, storeVars
<1>2. op \in {"CreateCustomer", "UpdateCustomer", "DeleteCustomer", "Read"}
  BY <1>1 DEF RequestOK, EnterIndex, SelectAddresses, CascadeDelete, ListAddresses, OpsAt
<1>3. /\ pc[r] \in {"emailIndex", "identIndex", "selectAddresses", "cascade", "list"} /\ code[r] = "NONE"
      /\ \/ pc'[r] = "respond" /\ code'[r] = "OK" /\ loaded'[r] = None
         \/ /\ pc'[r] \in {"identIndex", "addAddress", "selectAddresses", "cascade", "list"}
            /\ code'[r] = code[r] /\ loaded'[r] = loaded[r]
            /\ op \in Rewrites => pc'[r] # "addAddress"
  BY Endings DEF EnterIndex, SelectAddresses, CascadeDelete, ListAddresses, DraftOK, Rewrites
<1>4. op \in {"UpdateCustomer", "Read"} => UNCHANGED newAddresses
  <2>1. ~CascadeDelete(r) => UNCHANGED newAddresses
    BY DEF EnterIndex, SelectAddresses, ListAddresses, Reading, storeVars
  <2>2. CascadeDelete(r) => op = "DeleteCustomer"
    BY <1>1 DEF CascadeDelete, RequestOK, OpsAt
  <2> QED
    BY <2>1, <2>2
<1>5. AddressDraftOK(r)'
  BY <1>1, <1>2, <1>4 DEF AddressDraftOK, DraftOK
<1>6. op = "UpdateCustomer" => newCustomers[r][c] # None
  BY <1>1, <1>3 DEF DraftOK, CustomerDraftOK, Proceeds, RequestOK, OpsAt
<1>7. CustomerDraftOK(r)'
  BY <1>1, <1>3, <1>6 DEF CustomerDraftOK, ColumnOK, DraftOK
<1>8. op \in Rewrites => loaded[r] \in CustomerRow
  BY <1>3 DEF DraftOK
<1> QED
  BY <1>1, <1>3, <1>5, <1>7, <1>8 DEF DraftOK

\* The writes of addresses.
LEMMA WriteAddressDraft ==
    ASSUME StructureInv, NEW r \in Requests, RoleOK(r), DraftOK(r),
           AddAddress(r) \/ UpdateAddressRow(r)
    PROVE  DraftOK(r)'
<1> DEFINE c == req[r].customer  a == req[r].address  op == req[r].op
<1> USE DEF StructureInv, TypeOK, RequestTypeOK
<1>1. UNCHANGED <<customers, addresses, req, newCustomers>> /\ RequestOK(r) /\ c \in Customers
  BY StatementFrame, RequestFields DEF Statement, AddAddress, UpdateAddressRow
<1>2. CASE AddAddress(r)
  <2>1. op \in Creations /\ loaded[r] = None /\ code[r] = "NONE" /\ pc[r] = "addAddress"
    BY <1>1, <1>2 DEF AddAddress, RequestOK, OpsAt, DraftOK, Rewrites, Creations
  <2>2. PICK b \in todo[r] :
          /\ WriteAddress(r, b, [owner |-> c, status |-> "ACTIVE"])
          /\ \/ LastOf(todo[r], b) /\ Reply(r, "OK")
             \/ /\ ~LastOf(todo[r], b)
                /\ todo' = [todo EXCEPT ![r] = @ \ {b}]
                /\ Goto(r, "addAddress")
                /\ UNCHANGED <<entity, loaded, code>>
    BY <1>2 DEF AddAddress
  <2>3. pc'[r] \in {"addAddress", "respond"} /\ loaded'[r] = None
            /\ (pc'[r] = "addAddress" => code'[r] = "NONE")
    BY <2>1, <2>2, Endings
  <2>4. CustomerDraftOK(r)'
    BY <1>1, <2>1 DEF CustomerDraftOK, DraftOK, Creations
  <2>5. op = "CreateAddress" => pc'[r] = "respond" /\ \A d \in req[r].fresh : newAddresses'[r][d] # None
    <3> SUFFICES ASSUME op = "CreateAddress"
                 PROVE  pc'[r] = "respond" /\ \A d \in req[r].fresh : newAddresses'[r][d] # None
      OBVIOUS
    <3>1. todo[r] = req[r].fresh /\ \E d \in Addresses : req[r].fresh = {d}
      BY <1>1, <2>1 DEF DraftOK, AddressDraftOK, RequestOK
    <3>2. todo[r] = {b} /\ b \in Addresses
      BY <2>2, <3>1
    <3>3. pc'[r] = "respond"
      BY <2>2, <3>2, Endings DEF LastOf
    <3>4. newAddresses'[r][b] = [owner |-> c, status |-> "ACTIVE"]
      BY <2>2, <3>2 DEF WriteAddress, StoreTypeOK
    <3>5. [owner |-> c, status |-> "ACTIVE"] \in AddressRow
      BY <1>1 DEF AddressRow, Status
    <3>6. newAddresses'[r][b] # None
      BY <3>4, <3>5, RowsAssumption
    <3> QED
      BY <3>1, <3>2, <3>3, <3>6
  <2>6. AddressDraftOK(r)'
    BY <1>1, <2>1, <2>5 DEF AddressDraftOK, Creations
  <2> QED
    BY <1>1, <2>1, <2>3, <2>4, <2>6 DEF DraftOK, Rewrites, Creations
<1>3. CASE UpdateAddressRow(r)
  <2> DEFINE new == Merged("status", addresses[a], loaded[r], entity[r])
  <2>1. pc[r] = "writeAddress" /\ op \in {"UpdateAddress", "DeleteAddress"} /\ a \in Addresses
    BY <1>1, <1>3 DEF UpdateAddressRow, RequestOK, OpsAt
  <2>2. /\ addresses[a] \in AddressRow /\ addresses[a].owner = c
        /\ entity[r] \in AddressRow /\ entity[r].status = WantedStatus(req[r])
    BY <2>1 DEF DraftOK, AddressDraftOK, LocalInv, LocalOK, StoreTypeOK
  <2>3. newAddresses' = [newAddresses EXCEPT ![r][a] = [owner |-> addresses[a].owner, status |-> new]]
    BY <1>3 DEF UpdateAddressRow, WriteAddress
  <2>4. newAddresses'[r][a] = [owner |-> addresses[a].owner, status |-> new]
    BY <2>1, <2>3 DEF StoreTypeOK
  <2>5. new = entity[r].status \/ new = addresses[a].status
    BY DEF Merged
  <2>6. [owner |-> addresses[a].owner, status |-> new] \in AddressRow
    BY <2>2, <2>5 DEF AddressRow
  <2>7. newAddresses'[r][a] # None
    BY <2>4, <2>6, RowsAssumption
  <2>8. \A b \in Addresses : newAddresses'[r][b] # None => b = a
    <3>1. \A b \in Addresses : newAddresses[r][b] = None
      BY <2>1 DEF WriteSetInv, WriteSetOK
    <3> QED
      BY <2>3, <3>1 DEF StoreTypeOK
  <2>9. pc'[r] = "respond" /\ code'[r] = "OK" /\ loaded'[r] = None
    BY <1>3, Endings DEF UpdateAddressRow
  <2>10. ColumnOK(r, "status", newAddresses[r][a], addresses[a])'
    <3>1. newAddresses'[r][a]["status"] = new
      BY <2>4
    <3>2. WantedRow(req[r])["status"] = WantedStatus(req[r])
      BY DEF WantedRow
    <3> QED
      BY <1>1, <2>2, <2>5, <2>9, <3>1, <3>2 DEF ColumnOK
  <2>11. AddressDraftOK(r)'
    BY <1>1, <2>1, <2>2, <2>7, <2>8, <2>9, <2>10 DEF AddressDraftOK
  <2>12. CustomerDraftOK(r)'
    BY <1>1, <2>1 DEF CustomerDraftOK
  <2> QED
    BY <1>1, <2>9, <2>11, <2>12 DEF DraftOK
<1> QED
  BY <1>2, <1>3

\* Every statement of a request keeps its draft in order.
LEMMA StatementDraft ==
    ASSUME StructureInv, NEW r \in Requests, RoleOK(r), DraftOK(r), Statement(r) \/ StatementFails(r)
    PROVE  DraftOK(r)'
<1>1. CASE DuplicateKey(r) \/ DeadlockVictim(r) \/ StatementFails(r)
  <2>1. \E e \in {"ERR-002", "ERR-008", "ERR-007"} : Reply(r, e)
    BY <1>1 DEF DuplicateKey, DeadlockVictim, StatementFails, ConflictCode
  <2> QED
    BY <2>1, RefusedDraft
<1> QED
  BY <1>1, LookupDraft, WriteCustomerDraft, LaterDraft, WriteAddressDraft DEF Statement

\* A commit leaves the drafts of other requests as they want them: it locked
\* none of the rows they wrote.
LEMMA CommitDrafts ==
    ASSUME StructureInv, NEW r \in Requests, RoleOK(r), Teardown(r),
           NEW q \in Requests \ {r}, DraftOK(q)
    PROVE  DraftOK(q)'
<1>0. PICK c, a : c = req[q].customer /\ a = req[q].address
  OBVIOUS
<1> DEFINE op == req[q].op
<1> USE DEF StructureInv, TypeOK, RequestTypeOK
<1>1. SameRequest(q)
  BY TeardownFrame
<1>2. Disjoint(r, q) /\ WriteSetOK(q) /\ LocalOK(q)
  BY DEF WriteSetInv, LocalInv
<1>3. \/ pc[q] = "idle" /\ req[q] = NoRequest
      \/ RequestOK(q) /\ c \in Customers
  BY <1>0, RequestFields DEF RequestInv
<1>4. newCustomers[q][c] # None /\ c \in Customers => customers'[c] = customers[c]
  BY <1>0, <1>2, CustomerKept DEF WriteSetOK, Disjoint
<1>5. op \in {"UpdateAddress", "DeleteAddress"} => a \in Addresses
  BY <1>0, <1>3 DEF NoRequest, RequestOK
<1>6. op \in {"CreateCustomer", "UpdateCustomer", "DeleteCustomer"} => c \in Customers
  BY <1>3, <1>0 DEF NoRequest
<1>7. CustomerDraftOK(q)'
  BY <1>0, <1>1, <1>4, <1>6 DEF SameRequest, DraftOK, CustomerDraftOK, ColumnOK, Proceeds
<1>8. AddressDraftOK(q)'
  <2>1. CASE op \notin {"UpdateAddress", "DeleteAddress"}
    BY <1>1, <2>1 DEF SameRequest, DraftOK, AddressDraftOK
  <2>2. CASE op \in {"UpdateAddress", "DeleteAddress"}
    <3>1. pc[q] \in {"reload", "writeAddress"} => addresses'[a].owner = addresses[a].owner
      BY <1>0, <1>2, <1>5, <2>2, Published DEF LocalOK
    <3>2. newAddresses[q][a] # None => addresses'[a] = addresses[a]
      BY <1>2, <1>5, <2>2, Published DEF Disjoint
    <3> QED
      BY <1>0, <1>1, <2>2, <3>1, <3>2 DEF SameRequest, DraftOK, AddressDraftOK, ColumnOK
  <2> QED
    BY <2>1, <2>2
<1> QED
  BY <1>1, <1>7, <1>8 DEF SameRequest, DraftOK

\* A commit restores no address but to ACTIVE.
LEMMA CommitRestores ==
    ASSUME StructureInv, NEW r \in Requests, RoleOK(r), Teardown(r), \A a \in revived : VisibleAddress(a)
    PROVE  \A a \in revived' : VisibleAddress(a)'
<1> USE DEF StructureInv, TypeOK, StoreTypeOK
<1> SUFFICES ASSUME NEW a \in revived'
             PROVE  VisibleAddress(a)'
  OBVIOUS
<1>1. a \in Addresses
  BY DEF Teardown
<1>2. CASE newAddresses[r][a] = None
  BY <1>1, <1>2, Published DEF VisibleAddress
<1>3. CASE newAddresses[r][a] # None
  BY <1>1, <1>3, Published DEF VisibleAddress
<1> QED
  BY <1>2, <1>3

\* A request that is over has no draft, and one that begins has none yet.
LEMMA EndedDraft ==
    ASSUME StructureInv, NEW r \in Requests, DraftOK(r), Teardown(r) \/ TeardownFails(r)
    PROVE  DraftOK(r)'
<1>1. pc'[r] = "idle" /\ req'[r] = NoRequest /\ pc[r] = "respond" /\ code'[r] = "NONE" /\ loaded'[r] = loaded[r]
  BY DEF Teardown, TeardownFails, Finish, StructureInv, TypeOK, RequestTypeOK
<1>2. loaded'[r] = None
  BY <1>1 DEF DraftOK
<1>3. CustomerDraftOK(r)' /\ AddressDraftOK(r)'
  BY <1>1 DEF CustomerDraftOK, AddressDraftOK, NoRequest
<1> QED
  BY <1>1, <1>2, <1>3 DEF DraftOK, NoRequest, Rewrites

LEMMA ReceivedDraft ==
    ASSUME StructureInv, NEW r \in Requests, DraftOK(r), Receive(r)
    PROVE  DraftOK(r)'
<1> USE DEF StructureInv, TypeOK, RequestTypeOK
<1>1. RequestOK(r)' /\ loaded'[r] = None
  BY ReceiveType DEF Receive, DraftOK
<1>2. \A c \in Customers : newCustomers'[r][c] = None
  BY DEF Receive, Reading, storeVars, WriteSetInv, WriteSetOK, AfterCustomerWrite
<1>3. \A a \in Addresses : newAddresses'[r][a] = None
  BY DEF Receive, Reading, storeVars, WriteSetInv, WriteSetOK
<1>4. WriteSetOK(r)'
  BY NextStructure DEF Next, WriteSetInv
<1>5. /\ pc'[r] \in {"respond", "findEmail", "lockCustomer", "getCustomer"}
      /\ pc'[r] = "respond" => code'[r] # "OK"
      /\ pc'[r] # "respond" => code'[r] = "NONE" /\ todo'[r] = req'[r].fresh
  <2>1. PICK q \in Incoming, parsed \in BOOLEAN :
          /\ req'[r] = q
          /\ pc'[r] = IF parsed THEN Entry(q) ELSE "respond"
          /\ code'[r] = IF pc'[r] # "respond" THEN "NONE" ELSE IF parsed THEN "ERR-005" ELSE "VAL"
          /\ todo'[r] = IF pc'[r] # "respond" THEN q.fresh ELSE {}
    BY DEF Receive
  <2> QED
    BY <2>1 DEF Entry
<1> QED
  BY <1>1, <1>4, <1>5, BareDraft DEF AfterCustomerWrite

\* DraftInv holds at first, and every step keeps it.
LEMMA InitDrafts == Init => DraftInv
<1> SUFFICES ASSUME Init, NEW r \in Requests
             PROVE  DraftOK(r)
  BY DEF DraftInv, Init
<1>1. pc[r] = "idle" /\ req[r] = NoRequest /\ loaded[r] = None /\ code[r] = "NONE"
  BY DEF Init
<1>2. CustomerDraftOK(r) /\ AddressDraftOK(r)
  BY <1>1 DEF CustomerDraftOK, AddressDraftOK, NoRequest
<1> QED
  BY <1>1, <1>2 DEF DraftOK, NoRequest, Rewrites

LEMMA NextDrafts ==
    ASSUME StructureInv, AddressInv, DraftInv, [Next]_vars
    PROVE  DraftInv'
<1> USE DEF DraftInv, AddressInv
<1>1. TypeOK
  BY DEF StructureInv
<1>2. ASSUME UNCHANGED <<addresses, revived>>
      PROVE  \A a \in revived' : VisibleAddress(a)'
  BY <1>2 DEF VisibleAddress
<1>3. ASSUME NEW r \in Requests, Receive(r)
      PROVE  DraftInv'
  <2>1. /\ UNCHANGED <<customers, addresses, revived>>
        /\ \A q \in Requests \ {r} : SameRequest(q)
    BY <1>1, <1>3 DEF Receive, Reading, NoFailure, storeVars, SameRequest, TypeOK, RequestTypeOK
  <2> QED
    BY <1>2, <1>3, <2>1, OtherDrafts, ReceivedDraft
<1>4. ASSUME NEW r \in Requests, Statement(r) \/ StatementFails(r)
      PROVE  DraftInv'
  BY <1>1, <1>2, <1>4, StatementFrame, OtherDrafts, StatementDraft
<1>5. ASSUME NEW r \in Requests, Teardown(r)
      PROVE  DraftInv'
  BY <1>5, EndedDraft, CommitDrafts, CommitRestores
<1>6. ASSUME NEW r \in Requests, TeardownFails(r)
      PROVE  DraftInv'
  <2>1. UNCHANGED <<customers, addresses, revived>>
    BY <1>6 DEF TeardownFails, Rollback
  <2>2. \A q \in Requests \ {r} : SameRequest(q)
    BY <1>1, <1>6, TeardownFrame
  <2> QED
    BY <1>2, <1>6, <2>1, <2>2, OtherDrafts, EndedDraft
<1>7. CASE UNCHANGED vars
  <2>1. \A q \in Requests : SameRequest(q)
    BY <1>7 DEF vars, storeVars, requestVars, SameRequest
  <2>2. UNCHANGED <<customers, addresses, revived>>
    BY <1>7 DEF vars, storeVars
  <2> QED
    BY <1>2, <2>1, <2>2, OtherDrafts
<1> QED
  BY <1>3, <1>4, <1>5, <1>6, <1>7 DEF Next, Failure

-----------------------------------------------------------------------------
(* What the register sees of a statement.                                  *)

\* The abstract vocabulary is that of the requests.
LEMMA Vocabulary ==
    /\ Reg!Questions = Request
    /\ \A q : Reg!Wanted(q) = WantedRow(q) /\ Reg!Compared(q) = Compares(q)
    /\ \A c : Reg!There(customers[c]) <=> VisibleCustomer(c)
    /\ \A a : Reg!There(addresses[a]) <=> VisibleAddress(a)
    /\ \A c : Reg!Active(c) = ActiveOf(c)
    /\ \A S : Reg!Cardinality(S) = Cardinality(S)
BY DEF Reg!Cardinality, Cardinality, Reg!Questions, Request, AllOperations, Reg!Wanted, WantedRow,
       WantedStatus, Reg!Compared, Compares, Reg!There, VisibleCustomer, VisibleAddress, Reg!Active, ActiveOf

\* A request with a statement to come has not been answered.
LEMMA Open ==
    ASSUME StructureInv, NEW r \in Requests, pc[r] \notin {"idle", "respond"}
    PROVE  Reg!Waiting(r) /\ askedBar[r] = req[r] /\ noticedBar[r] = Seen(r) /\ req[r] \in Request
                /\ Seen(r) = FactsSeen(r) \cup ColumnsSeen(r)
<1>1. req[r] \in Request
  BY RequestFields DEF StructureInv, RequestOK
<1>2. askedBar[r] = req[r] /\ askedBar[r] # None
  BY <1>1, Vocabulary, QuestionAssumption DEF askedBar
<1>3. verdictBar[r] = "none" /\ noticedBar[r] = Seen(r)
  BY DEF verdictBar, noticedBar
<1> QED
  BY <1>1, <1>2, <1>3 DEF Reg!Waiting, Seen

\* Only what its own request noticed, and whether it is answered, changes.
LEMMA StatementBars ==
    ASSUME StructureInv, NEW r \in Requests, Statement(r) \/ StatementFails(r)
    PROVE  /\ pc[r] \notin {"idle", "respond"} /\ pc'[r] # "idle"
           /\ UNCHANGED <<customers, addresses, revived, askedBar>>
           /\ verdictBar' = [verdictBar EXCEPT ![r] = IF pc'[r] = "respond" THEN Outcome(code'[r]) ELSE "none"]
           /\ noticedBar' = [noticedBar EXCEPT ![r] = Seen(r)']
<1>1. pc[r] \notin {"idle", "respond"}
  BY DEF Statement, StatementFails, GetCustomer, GetAddress, FindByEmail, FindByIdentification, InsertCustomer,
     Reload, UpdateCustomerRow, EnterIndex, DuplicateKey, LockCustomer, CountActive, AddAddress, UpdateAddressRow,
     SelectAddresses, CascadeDelete, ListAddresses, DeadlockVictim, Deadlocked, Waits, RowWait, KeyWait
<1>2. pc'[r] # "idle"
  BY RequestStep DEF StructureInv
<1>3. /\ \A q \in Requests \ {r} : SameRequest(q)
      /\ UNCHANGED <<customers, addresses, revived, req>>
  BY StatementFrame DEF StructureInv
<1>4. askedBar' = askedBar
  BY <1>1, <1>2, <1>3 DEF askedBar, SameRequest
<1>5. verdictBar' = [verdictBar EXCEPT ![r] = IF pc'[r] = "respond" THEN Outcome(code'[r]) ELSE "none"]
  BY <1>3 DEF verdictBar, SameRequest
<1>6. ASSUME NEW q \in Requests \ {r} PROVE Seen(q)' = Seen(q)
  <2>1. SameRequest(q)
    BY <1>3
  <2>2. FactsSeen(q)' = FactsSeen(q)
    BY <2>1 DEF SameRequest, FactsSeen
  <2>3. Draft(q)' = Draft(q) /\ WantedRow(req[q])' = WantedRow(req[q])
    BY <2>1 DEF SameRequest, Draft, WantedRow
  <2>4. ColumnsSeen(q)' = ColumnsSeen(q)
    BY <2>1, <2>3 DEF SameRequest, ColumnsSeen
  <2> QED
    BY <2>1, <2>2, <2>4 DEF SameRequest, Seen
<1>7. noticedBar' = [noticedBar EXCEPT ![r] = Seen(r)']
  BY <1>6 DEF noticedBar
<1> QED
  BY <1>1, <1>2, <1>3, <1>4, <1>5, <1>7

\* A statement that neither answers nor notices anything is not seen.
LEMMA Silent ==
    ASSUME StructureInv, NEW r \in Requests, Statement(r), UNCHANGED failures,
           pc'[r] # "respond", Seen(r)' = Seen(r)
    PROVE  UNCHANGED Reg!vars
<1>1. verdictBar' = verdictBar /\ noticedBar' = noticedBar
  BY StatementBars DEF verdictBar, noticedBar
<1> QED
  BY <1>1, StatementBars DEF Reg!vars, Reg!register

\* A statement that notices something.
LEMMA Noticing ==
    ASSUME StructureInv, NEW r \in Requests, Statement(r), UNCHANGED failures,
           pc'[r] # "respond", NEW facts, Seen(r)' = Seen(r) \cup facts
    PROVE  Reg!Notices(r, facts) /\ UNCHANGED <<Reg!register, askedBar, verdictBar, failures>>
<1>1. verdictBar' = verdictBar
  BY StatementBars DEF verdictBar
<1>2. noticedBar' = [noticedBar EXCEPT ![r] = noticedBar[r] \cup facts]
  BY StatementBars, Open
<1> QED
  BY <1>1, <1>2, StatementBars DEF Reg!Notices, Reg!register

\* A statement that answers.
LEMMA Answering ==
    ASSUME StructureInv, NEW r \in Requests, Statement(r) \/ StatementFails(r), NEW e, Reply(r, e)
    PROVE  \E kept : /\ Reg!Answer(r, Outcome(e), kept)
                     /\ e # "OK" => kept = {}
                     /\ e = "OK" => kept = IF req[r].op \in Rewrites
                                           THEN {k \in Compares(req[r]) : Draft(r)'[k] # WantedRow(req[r])[k]}
                                           ELSE {}
<1>1. pc'[r] = "respond" /\ code'[r] = e /\ loaded'[r] = None
  BY Endings DEF StructureInv
<1>2. req'[r] = req[r]
  BY StatementFrame DEF StructureInv
<1>3. PICK kept : kept = Seen(r)'
  OBVIOUS
<1>4. Reg!Answer(r, Outcome(e), kept)
  BY <1>1, <1>3, StatementBars DEF Reg!Answer, Reg!register
<1>5. FactsSeen(r)' = {}
  BY <1>1 DEF FactsSeen
<1> QED
  BY <1>1, <1>2, <1>3, <1>4, <1>5 DEF Seen, ColumnsSeen

\* A success told after what it needs was noticed, and no rival.
LEMMA Succeeding ==
    ASSUME StructureInv, NEW r \in Requests, Statement(r), UNCHANGED failures, Reply(r, "OK"),
           Reg!Needed(req[r]) \subseteq Seen(r), "rival" \notin Seen(r),
           req[r].op \in Rewrites =>
              \A k \in Compares(req[r]) : Draft(r)'[k] # WantedRow(req[r])[k] => k \in Seen(r)
    PROVE  Reg!Succeed(r)
<1>1. Reg!Waiting(r) /\ askedBar[r] = req[r] /\ noticedBar[r] = Seen(r)
  BY StatementBars, Open
<1>2. PICK kept : /\ Reg!Answer(r, "success", kept)
                  /\ kept = IF req[r].op \in Rewrites
                            THEN {k \in Compares(req[r]) : Draft(r)'[k] # WantedRow(req[r])[k]}
                            ELSE {}
  BY Answering DEF Outcome
<1>3. kept \in SUBSET (Seen(r) \cap Compares(req[r]))
  BY <1>2
<1>4. Reg!Compared(req[r]) = Compares(req[r])
  BY Vocabulary
<1> QED
  BY <1>1, <1>2, <1>3, <1>4 DEF Reg!Succeed

\* A refusal told when the register justifies it.
LEMMA Refusing ==
    ASSUME StructureInv, NEW r \in Requests, Statement(r), UNCHANGED failures,
           NEW e, e \notin {"OK", "ERR-007"}, Reply(r, e), Reg!Justified(req[r], Seen(r))
    PROVE  Reg!Refuse(r)
<1>1. Reg!Waiting(r) /\ askedBar[r] = req[r] /\ noticedBar[r] = Seen(r)
  BY StatementBars, Open
<1>2. Reg!Answer(r, "refusal", {})
  <2>1. Outcome(e) = "refusal"
    BY DEF Outcome
  <2> QED
    BY <2>1, Answering
<1> QED
  BY <1>1, <1>2 DEF Reg!Refuse

\* What a request has noticed at a point before it compares columns.
LEMMA SeenEarly ==
    ASSUME NEW r \in Requests, pc[r] \notin {"idle", "respond"}, loaded[r] = None
    PROVE  Seen(r) = FactsSeen(r)
BY DEF Seen, ColumnsSeen

\* The same, after a statement.
LEMMA SeenNext ==
    ASSUME NEW r \in Requests, pc'[r] \notin {"idle", "respond"}, loaded'[r] = None
    PROVE  Seen(r)' = FactsSeen(r)'
BY DEF Seen, ColumnsSeen

-----------------------------------------------------------------------------
(* Every statement is a step of Registry or leaves it as it is.            *)

RegStep(r) == Reg!Notice(r) \/ Reg!Compare(r) \/ Reg!Succeed(r) \/ Reg!Refuse(r) \/ Reg!Fail(r)

\* The lookup of the customer of a request.
LEMMA CustomerNoticed ==
    ASSUME StructureInv, NEW r \in Requests, DraftOK(r), GetCustomer(r) \/ LockCustomer(r)
    PROVE  RegStep(r)
<1> DEFINE c == req[r].customer  op == req[r].op
<1>1. pc[r] \in {"getCustomer", "lockCustomer"} /\ UNCHANGED failures /\ Statement(r)
  BY DEF GetCustomer, LockCustomer, Reading, NoFailure, Statement
<1>2. op # "CreateCustomer" /\ c \in Customers /\ RequestOK(r)
  BY <1>1, RequestFields DEF StructureInv, RequestOK, OpsAt, Creations
<1>3. loaded[r] = None /\ code[r] = "NONE"
  BY <1>1 DEF DraftOK
<1>4. Seen(r) = {}
  BY <1>1, <1>3, SeenEarly DEF FactsSeen
<1>5. CASE ~VisibleCustomer(c)
  <2>1. Reply(r, "ERR-003")
    BY <1>5 DEF GetCustomer, LockCustomer
  <2>2. Reg!Justified(req[r], Seen(r))
    BY <1>2, <1>5, Vocabulary DEF Reg!Justified, Reg!CustomerThere
  <2> QED
    BY <1>1, <2>1, <2>2, Refusing DEF RegStep
<1>6. CASE VisibleCustomer(c)
  <2>1. /\ pc'[r] \in {"findEmail", "reload", "list", "getAddress", "count"} /\ UNCHANGED <<loaded, code>>
        /\ pc'[r] = "reload" => op = "DeleteCustomer"
    BY <1>6, Endings DEF GetCustomer, LockCustomer, StructureInv
  <2>2. req'[r] = req[r]
    BY <1>1, StatementFrame DEF StructureInv
  <2>3. Seen(r)' = {"customer"}
    <3>1. FactsSeen(r)' = {"customer"}
      BY <1>2, <1>3, <2>1, <2>2 DEF FactsSeen
    <3> QED
      BY <1>3, <2>1, <3>1, SeenNext
  <2>4. Reg!Notices(r, {"customer"}) /\ UNCHANGED <<Reg!register, askedBar, verdictBar, failures>>
    BY <1>1, <1>4, <2>1, <2>3, Noticing
  <2>5. Reg!CustomerThere(askedBar[r]) /\ Reg!Waiting(r)
    BY <1>1, <1>6, Open, Vocabulary DEF Reg!CustomerThere
  <2> QED
    BY <2>4, <2>5 DEF RegStep, Reg!Notice
<1> QED
  BY <1>5, <1>6

\* The lookup of an address.
LEMMA AddressNoticed ==
    ASSUME StructureInv, NEW r \in Requests, DraftOK(r), GetAddress(r)
    PROVE  RegStep(r)
<1> DEFINE c == req[r].customer  a == req[r].address  op == req[r].op
<1>1. pc[r] = "getAddress" /\ UNCHANGED failures /\ Statement(r)
  BY DEF GetAddress, Reading, NoFailure, Statement
<1>2. op \in {"UpdateAddress", "DeleteAddress"} /\ a \in Addresses
  BY <1>1, RequestFields DEF StructureInv, RequestOK, OpsAt
<1>3. loaded[r] = None /\ code[r] = "NONE"
  BY <1>1 DEF DraftOK
<1>4. Seen(r) = {"customer"}
  BY <1>1, <1>2, <1>3, SeenEarly DEF FactsSeen
<1>5. a # None
  BY <1>2, RowsAssumption
<1>6. Reg!AddressThere(req[r]) <=> AddressError(req[r]) = "NONE"
  BY <1>5, Vocabulary DEF Reg!AddressThere, AddressError
<1>7. CASE AddressError(req[r]) # "NONE"
  <2>1. AddressError(req[r]) \notin {"OK", "ERR-007"} /\ Reply(r, AddressError(req[r]))
    BY <1>7 DEF GetAddress, AddressError
  <2>2. Reg!Justified(req[r], Seen(r))
    BY <1>2, <1>4, <1>6, <1>7 DEF Reg!Justified
  <2> QED
    BY <1>1, <2>1, <2>2, Refusing DEF RegStep
<1>8. CASE AddressError(req[r]) = "NONE"
  <2>1. pc'[r] = "reload" /\ UNCHANGED <<loaded, code>>
    BY <1>8, Endings DEF GetAddress, StructureInv
  <2>2. req'[r] = req[r]
    BY <1>1, StatementFrame DEF StructureInv
  <2>3. Seen(r)' = {"customer"} \cup {"address"}
    <3>1. FactsSeen(r)' = {"customer"} \cup {"address"}
      BY <1>2, <1>3, <2>1, <2>2 DEF FactsSeen
    <3> QED
      BY <1>3, <2>1, <3>1, SeenNext
  <2>4. Reg!Notices(r, {"address"}) /\ UNCHANGED <<Reg!register, askedBar, verdictBar, failures>>
    BY <1>1, <1>4, <2>1, <2>3, Noticing
  <2>5. Reg!AddressThere(askedBar[r]) /\ Reg!Waiting(r) /\ "customer" \in noticedBar[r]
    BY <1>1, <1>4, <1>6, <1>8, Open
  <2> QED
    BY <2>4, <2>5 DEF RegStep, Reg!Notice
<1> QED
  BY <1>7, <1>8

\* A key found with another customer is held.
LEMMA FoundHeld ==
    ASSUME NEW r \in Requests
    PROVE  /\ FoundByOther(r, "email") => Reg!RivalThere(req[r])
           /\ FoundByOther(r, "ident") => Reg!Held(req[r].customer, "ident", req[r].ident)
BY DEF FoundByOther, VisibleCustomer, HasKey, Reg!RivalThere, Reg!There, Reg!Held

\* The search for duplicates.
LEMMA RivalNoticed ==
    ASSUME StructureInv, NEW r \in Requests, DraftOK(r), FindByEmail(r) \/ FindByIdentification(r)
    PROVE  RegStep(r) \/ UNCHANGED Reg!vars
<1> DEFINE op == req[r].op
<1>1. pc[r] \in {"findEmail", "findIdent"} /\ UNCHANGED failures /\ Statement(r)
  BY DEF FindByEmail, FindByIdentification, Reading, NoFailure, Statement
<1>2. op \in {"CreateCustomer", "UpdateCustomer"}
  BY <1>1, RequestFields DEF StructureInv, RequestOK, OpsAt
<1>3. loaded[r] = None /\ code[r] \in {"NONE", "ERR-002"}
  BY <1>1 DEF DraftOK
<1>4. Seen(r) = (IF op = "UpdateCustomer" THEN {"customer"} ELSE {})
                  \cup (IF code[r] = "ERR-002" THEN {"rival"} ELSE {})
  BY <1>1, <1>2, <1>3, SeenEarly DEF FactsSeen
<1>5. req'[r] = req[r]
  BY <1>1, StatementFrame DEF StructureInv
<1>6. ASSUME pc'[r] \in {"findIdent", "insertCustomer", "reload"}, loaded'[r] = loaded[r]
      PROVE  Seen(r)' = (IF op = "UpdateCustomer" THEN {"customer"} ELSE {})
                          \cup (IF code'[r] = "ERR-002" THEN {"rival"} ELSE {})
  BY <1>2, <1>3, <1>5, <1>6, SeenNext DEF FactsSeen
<1>7. CASE FindByEmail(r)
  <2>1. /\ pc[r] = "findEmail" /\ code[r] = "NONE" /\ pc'[r] = "findIdent" /\ loaded'[r] = loaded[r]
        /\ code'[r] = IF FoundByOther(r, "email") THEN "ERR-002" ELSE "NONE"
    BY <1>7, Endings DEF FindByEmail, DraftOK, StructureInv, TypeOK, RequestTypeOK
  <2>2. CASE ~FoundByOther(r, "email")
    <3>1. Seen(r)' = Seen(r)
      BY <1>4, <1>6, <2>1, <2>2
    <3> QED
      BY <1>1, <2>1, <3>1, Silent
  <2>3. CASE FoundByOther(r, "email")
    <3>1. Seen(r)' = Seen(r) \cup {"rival"}
      BY <1>4, <1>6, <2>1, <2>3
    <3>2. Reg!Notices(r, {"rival"}) /\ UNCHANGED <<Reg!register, askedBar, verdictBar, failures>>
      BY <1>1, <2>1, <3>1, Noticing
    <3>3. Reg!RivalThere(askedBar[r]) /\ Reg!Waiting(r)
      BY <1>1, <2>3, Open, FoundHeld
    <3> QED
      BY <3>2, <3>3 DEF RegStep, Reg!Notice
  <2> QED
    BY <2>2, <2>3
<1>8. CASE FindByIdentification(r)
  <2>1. CASE code[r] # "NONE" \/ FoundByOther(r, "ident")
    <3>1. Reply(r, IF code[r] # "NONE" THEN code[r] ELSE "ERR-008")
      BY <1>8, <2>1 DEF FindByIdentification
    <3>2. Reg!Justified(req[r], Seen(r))
      BY <1>2, <1>3, <1>4, <2>1, FoundHeld DEF Reg!Justified
    <3> QED
      BY <1>1, <1>3, <3>1, <3>2, Refusing DEF RegStep
  <2>2. CASE ~(code[r] # "NONE" \/ FoundByOther(r, "ident"))
    <3>1. pc'[r] \in {"insertCustomer", "reload"} /\ UNCHANGED <<loaded, code>>
      BY <1>8, <2>2, Endings DEF FindByIdentification, StructureInv
    <3>2. Seen(r)' = Seen(r)
      BY <1>4, <1>6, <3>1
    <3> QED
      BY <1>1, <3>1, <3>2, Silent
  <2> QED
    BY <2>1, <2>2
<1> QED
  BY <1>7, <1>8

\* The repository's update() reads the row again.
LEMMA RowCompared ==
    ASSUME StructureInv, NEW r \in Requests, DraftOK(r), Reload(r)
    PROVE  RegStep(r)
<1> DEFINE c == req[r].customer  a == req[r].address  op == req[r].op
<1>1. pc[r] = "reload" /\ UNCHANGED failures /\ Statement(r) /\ op \in Rewrites
  BY DEF Reload, Reading, NoFailure, Statement, Rewrites
<1>2. loaded[r] = None /\ code[r] = "NONE" /\ RequestOK(r) /\ c \in Customers
  BY <1>1, RequestFields DEF DraftOK, StructureInv
<1>3. req'[r] = req[r] /\ code'[r] = code[r]
  BY <1>1, StatementFrame DEF StructureInv, Reload
<1>4. Seen(r) = FactsSeen(r)
  BY <1>1, <1>2, SeenEarly
<1>5. PICK row : row = IF op \in {"UpdateCustomer", "DeleteCustomer"} THEN customers[c] ELSE addresses[a]
  OBVIOUS
<1>6. loaded'[r] = row /\ row # None /\ pc'[r] \in {"writeCustomer", "writeAddress"}
            /\ (pc'[r] = "writeAddress" <=> op \in {"UpdateAddress", "DeleteAddress"})
  <2>1. row # None
    BY <1>1, <1>2, <1>5 DEF Rewrites, StructureInv, LocalInv, LocalOK
  <2>2. loaded'[r] = row
    BY <1>1, <1>5 DEF Reload, Rewrites, StructureInv, TypeOK, RequestTypeOK
  <2>3. \/ op \in {"UpdateCustomer", "DeleteCustomer"} /\ pc'[r] = "writeCustomer"
        \/ op \in {"UpdateAddress", "DeleteAddress"} /\ pc'[r] = "writeAddress"
    BY Endings DEF Reload, StructureInv
  <2> QED
    BY <2>1, <2>2, <2>3
<1>7. Reg!AsWanted(req[r]) = {k \in Compares(req[r]) : row[k] = WantedRow(req[r])[k]}
  <2>1. Reg!Row(req[r]) = row
    BY <1>1, <1>5 DEF Reg!Row, Rewrites
  <2> QED
    BY <2>1, Vocabulary DEF Reg!AsWanted
<1>8. FactsSeen(r)' = FactsSeen(r)
  BY <1>1, <1>2, <1>3, <1>6 DEF FactsSeen
<1>9. Seen(r)' = Seen(r) \cup Reg!AsWanted(req[r])
  <2>1. Seen(r)' = FactsSeen(r)' \cup ColumnsSeen(r)'
    BY <1>6 DEF Seen
  <2>2. ColumnsSeen(r)' = {k \in Compares(req[r]) : row[k] = WantedRow(req[r])[k]}
    BY <1>3, <1>6 DEF ColumnsSeen
  <2> QED
    BY <1>4, <1>7, <1>8, <2>1, <2>2
<1>10. /\ Reg!Notices(r, Reg!AsWanted(req[r]))
       /\ UNCHANGED <<Reg!register, askedBar, verdictBar, failures>>
  BY <1>1, <1>6, <1>9, Noticing
<1>11. Reg!Needed(req[r]) \subseteq Seen(r)
  BY <1>1, <1>4 DEF Reg!Needed, FactsSeen, Rewrites
<1>12. Reg!Waiting(r) /\ askedBar[r] = req[r] /\ noticedBar[r] = Seen(r)
  BY <1>1, Open
<1> QED
  BY <1>1, <1>10, <1>11, <1>12 DEF RegStep, Reg!Compare, Rewrites

\* What the request noticed stays as it is while its statements write.
LEMMA SeenKept ==
    ASSUME NEW r \in Requests, pc[r] \notin {"idle", "respond"}, pc'[r] \notin {"idle", "respond"},
           req'[r] = req[r], loaded'[r] = loaded[r], FactsSeen(r)' = FactsSeen(r)
    PROVE  Seen(r)' = Seen(r)
BY DEF Seen, ColumnsSeen

Writes(r) ==
    \/ InsertCustomer(r) \/ UpdateCustomerRow(r) \/ EnterIndex(r) \/ CountActive(r) \/ AddAddress(r)
    \/ SelectAddresses(r) \/ CascadeDelete(r)

\* Writes, and the reads between them, are not seen unless they answer.
LEMMA WritesUnseen ==
    ASSUME StructureInv, NEW r \in Requests, DraftOK(r), Writes(r), pc'[r] # "respond"
    PROVE  UNCHANGED Reg!vars
<1>1. Statement(r) /\ UNCHANGED failures
  BY DEF Writes, Statement, InsertCustomer, UpdateCustomerRow, EnterIndex, CountActive, AddAddress,
         SelectAddresses, CascadeDelete, Reading, NoFailure
<1>2. req'[r] = req[r] /\ pc[r] \notin {"idle", "respond"} /\ pc'[r] \notin {"idle", "respond"}
  BY <1>1, StatementFrame, StatementBars DEF StructureInv
<1>3. /\ pc[r] \notin {"getCustomer", "lockCustomer", "reload", "writeAddress", "findIdent"}
      /\ pc'[r] \notin {"getCustomer", "lockCustomer", "reload", "writeAddress", "findIdent"}
      /\ loaded'[r] = loaded[r] /\ code'[r] = code[r]
  BY Endings DEF Writes, InsertCustomer, UpdateCustomerRow, EnterIndex, CountActive, AddAddress,
         SelectAddresses, CascadeDelete, StructureInv
<1>4. FactsSeen(r)' = FactsSeen(r)
  BY <1>2, <1>3 DEF FactsSeen
<1>5. Seen(r)' = Seen(r)
  BY <1>2, <1>3, <1>4, SeenKept
<1> QED
  BY <1>1, <1>2, <1>5, Silent

\* The limit is reached when the new address is counted.
LEMMA CountRefused ==
    ASSUME StructureInv, NEW r \in Requests, DraftOK(r), CountActive(r), pc'[r] = "respond"
    PROVE  RegStep(r)
<1> DEFINE c == req[r].customer
<1>1. pc[r] = "count" /\ UNCHANGED failures /\ Statement(r)
  BY DEF CountActive, Reading, NoFailure, Statement
<1>2. req[r].op = "CreateAddress"
  BY <1>1, RequestFields DEF StructureInv, RequestOK, OpsAt
<1>3. Reply(r, "ERR-005") /\ ~RoomForOneMore(Cardinality(ActiveOf(c)))
  BY Endings DEF CountActive, StructureInv
<1>4. Cardinality(ActiveOf(c)) \in Nat /\ MaxAddresses \in Nat
  <2>1. ActiveOf(c) \subseteq Addresses
    BY DEF ActiveOf
  <2> QED
    BY <2>1, Smaller, BoundsAssumption
<1>5. Cardinality(ActiveOf(c)) >= MaxAddresses
  BY <1>3, <1>4 DEF RoomForOneMore
<1>6. Reg!Justified(req[r], Seen(r))
  <2>1. Reg!Active(c) = ActiveOf(c)
    BY Vocabulary
  <2>2. Reg!Cardinality(Reg!Active(req[r].customer)) >= MaxAddresses
    BY <1>5, <2>1, Vocabulary
  <2> HIDE DEF c
  <2> QED
    BY <1>2, <2>2, Zenon DEF Reg!Justified
<1> QED
  BY <1>1, <1>3, <1>6, Refusing DEF RegStep

\* A duplicate key: the one the request asked for is held, as the row of the
\* customer itself has no key of another customer.
LEMMA DuplicateRefused ==
    ASSUME StructureInv, UniqueKeys, NEW r \in Requests, DraftOK(r), DuplicateKey(r)
    PROVE  RegStep(r)
<1> DEFINE c == req[r].customer  op == req[r].op  k == IndexOf(pc[r])
           draft == newCustomers[r][c]
<1>1. pc[r] \in {"emailIndex", "identIndex"} /\ UNCHANGED failures /\ Statement(r)
  BY DEF DuplicateKey, NoFailure, Statement
<1>2. op \in {"CreateCustomer", "UpdateCustomer", "DeleteCustomer"} /\ c \in Customers
  BY <1>1, RequestFields DEF StructureInv, RequestOK, OpsAt
<1>3. PICK d \in Customers \ {c} : customers[d] # None /\ customers[d][k] = draft[k]
  BY DEF DuplicateKey, KeyTaken, HasKey
<1>4. Reply(r, ConflictCode(pc[r])) /\ ConflictCode(pc[r]) \notin {"OK", "ERR-007"}
  BY DEF DuplicateKey, ConflictCode
<1>5. k \in {"email", "ident"} /\ draft # None
  BY <1>1 DEF IndexOf, StructureInv, WriteSetInv, WriteSetOK
<1>6. Reg!Justified(req[r], Seen(r))
  <2>1. CASE op = "DeleteCustomer"
    BY <1>3, <2>1 DEF Reg!Justified
  <2>2. CASE op # "DeleteCustomer"
    <3>1. draft[k] = WantedRow(req[r])[k]
      <4>1. CASE op = "CreateCustomer"
        BY <1>5, <4>1 DEF DraftOK, CustomerDraftOK
      <4>2. CASE op = "UpdateCustomer"
        <5>1. draft[k] = WantedRow(req[r])[k] \/ draft[k] = customers[c][k]
          BY <1>5, <4>2 DEF DraftOK, CustomerDraftOK, ColumnOK
        <5>2. customers[c] # None
          BY <1>1, <1>2, <1>5, <4>2 DEF StructureInv, WriteSetInv, WriteSetOK
        <5>3. draft[k] # customers[c][k]
          BY <1>2, <1>3, <1>5, <5>2 DEF UniqueKeys, Keys
        <5> QED
          BY <5>1, <5>3
      <4> QED
        BY <1>2, <2>2, <4>1, <4>2
    <3>2. Reg!Held(c, "email", req[r].email) \/ Reg!Held(c, "ident", req[r].ident)
      BY <1>3, <1>5, <3>1 DEF Reg!Held, WantedRow
    <3> QED
      BY <1>2, <2>2, <3>2 DEF Reg!Justified
  <2> QED
    BY <2>1, <2>2
<1> QED
  BY <1>1, <1>4, <1>6, Refusing DEF RegStep

\* The answers of success.
LEMMA CreationSucceeds ==
    ASSUME StructureInv, NEW r \in Requests, DraftOK(r), EnterIndex(r) \/ AddAddress(r), pc'[r] = "respond"
    PROVE  RegStep(r)
<1>1. pc[r] \in {"identIndex", "addAddress"} /\ UNCHANGED failures /\ Statement(r) /\ Reply(r, "OK")
  BY Endings DEF EnterIndex, AddAddress, NoFailure, Statement, StructureInv
<1>2. req[r].op \in Creations
  <2>1. CASE EnterIndex(r)
    BY <2>1, Endings DEF EnterIndex, StructureInv, Creations
  <2>2. CASE AddAddress(r)
    BY <2>2, RequestFields DEF AddAddress, StructureInv, RequestOK, OpsAt
  <2> QED
    BY <2>1, <2>2
<1>3. loaded[r] = None /\ code[r] = "NONE"
  BY <1>1, <1>2 DEF DraftOK, Creations, Rewrites
<1>4. Seen(r) = FactsSeen(r)
  BY <1>1, <1>3, SeenEarly
<1>5. Reg!Needed(req[r]) \subseteq Seen(r) /\ "rival" \notin Seen(r)
  BY <1>1, <1>2, <1>3, <1>4 DEF FactsSeen, Reg!Needed, Creations
<1> QED
  BY <1>1, <1>2, <1>5, Succeeding DEF RegStep, Rewrites, Creations

LEMMA CustomerSucceeds ==
    ASSUME StructureInv, NEW r \in Requests, RoleOK(r), DraftOK(r), ListAddresses(r)
    PROVE  RegStep(r)
<1> DEFINE c == req[r].customer  op == req[r].op
<1>1. pc[r] = "list" /\ UNCHANGED failures /\ Statement(r) /\ Reply(r, "OK")
  BY DEF ListAddresses, Reading, NoFailure, Statement
<1>2. op \in {"UpdateCustomer", "DeleteCustomer", "Read"} /\ c \in Customers
  BY <1>1, RequestFields DEF StructureInv, RequestOK, OpsAt
<1>3. code[r] = "NONE" /\ (op \in Rewrites => loaded[r] \in CustomerRow)
  BY <1>1 DEF DraftOK
<1>4. Seen(r) = {"customer"} \cup ColumnsSeen(r) /\ "rival" \notin ColumnsSeen(r)
  <2>1. FactsSeen(r) = {"customer"}
    BY <1>1, <1>2, <1>3 DEF FactsSeen
  <2>2. "rival" \notin ColumnsSeen(r)
    BY DEF ColumnsSeen, Compares
  <2> QED
    BY <1>1, <2>1, <2>2 DEF Seen
<1>5. Reg!Needed(req[r]) \subseteq Seen(r) /\ "rival" \notin Seen(r)
  BY <1>2, <1>4 DEF Reg!Needed
<1>6. ASSUME op \in Rewrites, NEW k \in Compares(req[r]), Draft(r)'[k] # WantedRow(req[r])[k]
      PROVE  k \in Seen(r)
  <2>1. loaded[r] # None
    BY <1>3, <1>6, RowsAssumption
  <2>2. Draft(r)' = newCustomers[r][c]
    <3>1. req'[r] = req[r] /\ newCustomers'[r] = newCustomers[r]
      BY <1>1, StatementFrame DEF StructureInv, ListAddresses, Reading, storeVars
    <3> QED
      BY <1>2, <3>1 DEF Draft
  <2>3. newCustomers[r][c] # None
    BY <1>1, <1>2, <1>6 DEF DraftOK, CustomerDraftOK, RoleOK, CascadeOK, Proceeds, Rewrites
  <2>4. ColumnOK(r, k, newCustomers[r][c], customers[c])
    BY <1>2, <1>6, <2>3 DEF DraftOK, CustomerDraftOK, Compares, Rewrites
  <2>5. loaded[r][k] = WantedRow(req[r])[k]
    BY <1>6, <2>1, <2>2, <2>4 DEF ColumnOK
  <2> QED
    BY <1>4, <1>6, <2>1, <2>5 DEF ColumnsSeen
<1> QED
  BY <1>1, <1>5, <1>6, Succeeding DEF RegStep

LEMMA AddressSucceeds ==
    ASSUME StructureInv, NEW r \in Requests, DraftOK(r), UpdateAddressRow(r)
    PROVE  RegStep(r)
<1> DEFINE a == req[r].address  op == req[r].op
<1>1. pc[r] = "writeAddress" /\ UNCHANGED failures /\ Statement(r) /\ Reply(r, "OK")
  BY DEF UpdateAddressRow, NoFailure, Statement
<1>2. op \in {"UpdateAddress", "DeleteAddress"} /\ a \in Addresses
  BY <1>1, RequestFields DEF StructureInv, RequestOK, OpsAt
<1>3. /\ code[r] = "NONE" /\ loaded[r] \in AddressRow
      /\ entity[r].status = WantedStatus(req[r])
  BY <1>1, <1>2 DEF DraftOK, AddressDraftOK, StructureInv, LocalInv, LocalOK
<1>4. Seen(r) = {"customer", "address"} \cup ColumnsSeen(r) /\ "rival" \notin ColumnsSeen(r)
  <2>1. FactsSeen(r) = {"customer", "address"}
    BY <1>1, <1>2, <1>3 DEF FactsSeen
  <2>2. "rival" \notin ColumnsSeen(r)
    BY DEF ColumnsSeen, Compares
  <2> QED
    BY <1>1, <2>1, <2>2 DEF Seen
<1>5. Reg!Needed(req[r]) \subseteq Seen(r) /\ "rival" \notin Seen(r)
  BY <1>2, <1>4 DEF Reg!Needed
<1>6. ASSUME NEW k \in Compares(req[r]), Draft(r)'[k] # WantedRow(req[r])[k]
      PROVE  k \in Seen(r)
  <2>1. k = "status" /\ loaded[r] # None
    BY <1>2, <1>3, <1>6, RowsAssumption DEF Compares
  <2>2. Draft(r)' = [owner |-> addresses[a].owner, status |-> Merged("status", addresses[a], loaded[r], entity[r])]
    <3>1. req'[r] = req[r]
      BY <1>1, StatementFrame DEF StructureInv
    <3> QED
      BY <1>2, <3>1 DEF Draft, UpdateAddressRow, WriteAddress, StructureInv, TypeOK, StoreTypeOK
  <2>3. Merged("status", addresses[a], loaded[r], entity[r]) # WantedStatus(req[r])
    BY <1>6, <2>1, <2>2 DEF WantedRow
  <2>4. loaded[r].status = WantedStatus(req[r])
    BY <1>3, <2>3 DEF Merged
  <2> QED
    BY <1>4, <1>6, <2>1, <2>4 DEF ColumnsSeen, WantedRow
<1> QED
  BY <1>1, <1>5, <1>6, Succeeding DEF RegStep

\* Failures, and the victims of deadlocks.
LEMMA Failing ==
    ASSUME StructureInv, NEW r \in Requests, StatementFails(r) \/ DeadlockVictim(r)
    PROVE  RegStep(r)
<1>1. Reply(r, "ERR-007") /\ (Statement(r) \/ StatementFails(r))
  BY DEF StatementFails, DeadlockVictim, Statement
<1>2. Reg!Answer(r, "failure", {}) /\ Reg!Waiting(r)
  <2>1. Outcome("ERR-007") = "failure"
    BY DEF Outcome
  <2>2. Reg!Answer(r, "failure", {})
    BY <1>1, <2>1, Answering
  <2> QED
    BY <1>1, <2>2, StatementBars, Open
<1>3. failures' = failures + 1 \/ (failures' = failures /\ \E q \in Requests \ {r} : Reg!Waiting(q))
  <2>1. CASE StatementFails(r)
    BY <2>1 DEF StatementFails
  <2>2. CASE DeadlockVictim(r)
    <3>1. PICK S \in SUBSET Requests : r \in S /\ Deadlocked(S)
      BY <2>2 DEF DeadlockVictim
    <3>2. PICK q \in S : Waits(r, q)
      BY <3>1 DEF Deadlocked
    <3>3. PICK p \in S : Waits(q, p)
      BY <3>1 DEF Deadlocked
    <3>4. q # r /\ q \in Requests
      BY <3>1, <3>2 DEF Waits, RowWait, KeyWait
    <3>5. pc[q] \notin {"idle", "respond"}
      BY <3>3 DEF Waits, RowWait, KeyWait
    <3> QED
      BY <2>2, <3>4, <3>5, Open DEF DeadlockVictim, NoFailure
  <2> QED
    BY <2>1, <2>2
<1> QED
  BY <1>2, <1>3 DEF RegStep, Reg!Fail

\* Every statement is a step of its request in Registry, or is not seen.
LEMMA StatementRegister ==
    ASSUME StructureInv, UniqueKeys, NEW r \in Requests, RoleOK(r), DraftOK(r),
           Statement(r) \/ StatementFails(r)
    PROVE  RegStep(r) \/ UNCHANGED Reg!vars
<1>1. CASE GetCustomer(r) \/ LockCustomer(r) \/ GetAddress(r)
  BY <1>1, CustomerNoticed, AddressNoticed
<1>2. CASE FindByEmail(r) \/ FindByIdentification(r) \/ Reload(r)
  BY <1>2, RivalNoticed, RowCompared
<1>3. CASE DuplicateKey(r) \/ DeadlockVictim(r) \/ StatementFails(r)
  BY <1>3, DuplicateRefused, Failing
<1>4. CASE ListAddresses(r) \/ UpdateAddressRow(r)
  BY <1>4, CustomerSucceeds, AddressSucceeds
<1>5. CASE Writes(r) /\ pc'[r] # "respond"
  BY <1>5, WritesUnseen
<1>6. CASE (CountActive(r) \/ EnterIndex(r) \/ AddAddress(r)) /\ pc'[r] = "respond"
  BY <1>6, CountRefused, CreationSucceeds
<1>7. InsertCustomer(r) \/ UpdateCustomerRow(r) \/ SelectAddresses(r) \/ CascadeDelete(r) => pc'[r] # "respond"
  BY Endings DEF InsertCustomer, UpdateCustomerRow, SelectAddresses, CascadeDelete, StructureInv
<1> QED
  BY <1>1, <1>2, <1>3, <1>4, <1>5, <1>6, <1>7 DEF Statement, Writes

-----------------------------------------------------------------------------
(* The arrival of a request, and its end.                                  *)

\* A request arrives: refused at once, or with nothing noticed yet.
LEMMA ReceiveArrives ==
    ASSUME StructureInv, NEW r \in Requests, DraftOK(r), Receive(r)
    PROVE  Reg!Arrive(r)
<1> USE DEF StructureInv, TypeOK, RequestTypeOK
<1>1. PICK q, entry, error :
         /\ q \in Incoming /\ entry \in {"respond", Entry(q)} /\ error \in {"VAL", "ERR-005"}
         /\ req' = [req EXCEPT ![r] = q]
         /\ pc' = [pc EXCEPT ![r] = entry]
         /\ code' = [code EXCEPT ![r] = IF entry # "respond" THEN "NONE" ELSE error]
  <2>1. PICK q \in Incoming, parsed \in BOOLEAN :
           LET entry == IF parsed THEN Entry(q) ELSE "respond"
               error == IF parsed THEN "ERR-005" ELSE "VAL"
           IN
           /\ req' = [req EXCEPT ![r] = q]
           /\ pc' = [pc EXCEPT ![r] = entry]
           /\ code' = [code EXCEPT ![r] = IF entry # "respond" THEN "NONE" ELSE error]
    BY DEF Receive
  <2>2. PICK entry, error : /\ entry = IF parsed THEN Entry(q) ELSE "respond"
                            /\ error = IF parsed THEN "ERR-005" ELSE "VAL"
    OBVIOUS
  <2> QED
    BY <2>1, <2>2
<1>2. pc[r] = "idle" /\ UNCHANGED <<customers, addresses, revived, failures, loaded, newCustomers, newAddresses>>
  BY DEF Receive, Reading, NoFailure, storeVars
<1>3. req'[r] = q /\ pc'[r] = entry /\ q \in Request /\ pc'[r] # "idle"
  BY <1>1, ReceiveType DEF RequestOK
<1>4. loaded'[r] = None /\ code'[r] = IF entry # "respond" THEN "NONE" ELSE error
  BY <1>1, <1>2 DEF DraftOK
<1>5. askedBar[r] = None /\ askedBar'[r] = q /\ q \in Reg!Questions
  BY <1>2, <1>3, Vocabulary DEF askedBar
<1>6. askedBar' = [askedBar EXCEPT ![r] = q]
  BY <1>1, <1>3 DEF askedBar
<1>7. PICK v : v = IF entry = "respond" THEN "refusal" ELSE "none"
  OBVIOUS
<1>8. verdictBar' = [verdictBar EXCEPT ![r] = v]
  <2>1. entry = "respond" => Outcome(code'[r]) = "refusal"
    BY <1>1, <1>4 DEF Outcome
  <2>2. verdictBar'[r] = v
    BY <1>3, <1>7, <2>1 DEF verdictBar
  <2>3. \A p \in Requests \ {r} : verdictBar'[p] = verdictBar[p]
    BY <1>1 DEF verdictBar
  <2> QED
    BY <2>2, <2>3 DEF verdictBar
<1>9. v = "none" /\ q.op = "CreateCustomer" => Cardinality(q.fresh) <= MaxAddresses
  <2>1. v = "none" /\ q.op = "CreateCustomer" => ~(Cardinality(q.fresh) > MaxAddresses)
    BY <1>1, <1>7 DEF Entry
  <2>2. q.fresh \subseteq Addresses
    BY <1>3 DEF Request
  <2>3. Cardinality(q.fresh) \in Nat /\ MaxAddresses \in Nat
    BY <2>2, Smaller, BoundsAssumption
  <2> QED
    BY <2>1, <2>3
<1>10. noticedBar' = noticedBar
  <2>1. Seen(r) = {}
    BY <1>2 DEF Seen
  <2>2. FactsSeen(r)' = {}
    <3>1. pc'[r] \in {"getCustomer", "lockCustomer", "respond"}
             \/ (req'[r].op = "CreateCustomer" /\ pc'[r] = "findEmail" /\ code'[r] = "NONE")
      BY <1>1, <1>3, <1>4 DEF Entry
    <3> QED
      BY <3>1 DEF FactsSeen
  <2>3. ColumnsSeen(r)' = {}
    BY <1>1, <1>4 DEF ColumnsSeen
  <2>4. \A p \in Requests \ {r} : Seen(p)' = Seen(p)
    BY <1>1, <1>2 DEF Seen, FactsSeen, ColumnsSeen, Draft
  <2> QED
    BY <2>1, <2>2, <2>3, <2>4 DEF Seen, noticedBar
<1>11. v \in {"none", "refusal"}
  BY <1>7
<1> QED
  BY <1>2, <1>5, <1>6, <1>8, <1>9, <1>10, <1>11, Vocabulary DEF Reg!Arrive, Reg!register

\* What is known of an answered request, and that it goes.
LEMMA AnsweredGoes ==
    ASSUME StructureInv, NEW r \in Requests, DraftOK(r), Teardown(r) \/ TeardownFails(r)
    PROVE  /\ RequestOK(r) /\ askedBar[r] = req[r] /\ verdictBar[r] = Outcome(code[r])
           /\ noticedBar[r] = IF code[r] = "OK" /\ req[r].op \in Rewrites
                              THEN {k \in Compares(req[r]) : Draft(r)[k] # WantedRow(req[r])[k]}
                              ELSE {}
           /\ Reg!Goes(r)
<1>1. pc[r] = "respond" /\ pc'[r] = "idle" /\ \A q \in Requests \ {r} : SameRequest(q)
  BY TeardownFrame DEF StructureInv
<1>2. RequestOK(r) /\ loaded[r] = None
  BY <1>1, RequestFields DEF StructureInv, DraftOK
<1>3. askedBar[r] = req[r] /\ verdictBar[r] = Outcome(code[r])
  BY <1>1 DEF askedBar, verdictBar
<1>4. noticedBar[r] = Seen(r) /\ Seen(r) = ColumnsSeen(r)
  BY <1>1 DEF noticedBar, Seen, FactsSeen
<1>5. ColumnsSeen(r) = IF code[r] = "OK" /\ req[r].op \in Rewrites
                       THEN {k \in Compares(req[r]) : Draft(r)[k] # WantedRow(req[r])[k]}
                       ELSE {}
  BY <1>1, <1>2 DEF ColumnsSeen
<1>6. askedBar' = [askedBar EXCEPT ![r] = None] /\ verdictBar' = [verdictBar EXCEPT ![r] = "none"]
  BY <1>1 DEF askedBar, verdictBar, SameRequest
<1>7. noticedBar' = [noticedBar EXCEPT ![r] = {}]
  <2>1. Seen(r)' = {}
    BY <1>1 DEF Seen
  <2>2. ASSUME NEW q \in Requests \ {r}
        PROVE  Seen(q)' = Seen(q)
    <3>1. SameRequest(q)
      BY <1>1
    <3>2. FactsSeen(q)' = FactsSeen(q) /\ ColumnsSeen(q)' = ColumnsSeen(q)
      BY <3>1 DEF SameRequest, FactsSeen, ColumnsSeen, Draft
    <3> QED
      BY <3>1, <3>2 DEF SameRequest, Seen
  <2> QED
    BY <2>1, <2>2 DEF noticedBar
<1> QED
  BY <1>2, <1>3, <1>4, <1>5, <1>6, <1>7 DEF Reg!Goes

\* The commit after a refusal or a failure publishes nothing.
LEMMA RefusedLeaves ==
    ASSUME StructureInv, NEW r \in Requests, DraftOK(r), Teardown(r), code[r] # "OK"
    PROVE  Reg!Leave(r)
<1> USE DEF StructureInv, TypeOK, StoreTypeOK
<1>1. pc[r] = "respond" /\ WriteSetOK(r)
  BY DEF Teardown, WriteSetInv
<1>2. /\ \A c \in Customers : newCustomers[r][c] = None
      /\ \A a \in Addresses : newAddresses[r][a] = None
  BY <1>1 DEF WriteSetOK
<1>3. customers' = customers /\ addresses' = addresses
  BY <1>2 DEF Teardown, Commit, CommittedCustomer, CommittedAddress
<1>4. revived' = revived /\ failures' = failures
  BY <1>2 DEF Teardown, Revives, Deletes
<1>5. verdictBar[r] \in {"refusal", "failure"}
  BY AnsweredGoes DEF Outcome
<1> QED
  BY <1>3, <1>4, <1>5, AnsweredGoes DEF Reg!Leave, Reg!register

\* The commit fails: what was answered is lost.
LEMMA FailedLoses ==
    ASSUME StructureInv, NEW r \in Requests, DraftOK(r), TeardownFails(r)
    PROVE  Reg!Lose(r)
<1>1. UNCHANGED <<customers, addresses, revived>> /\ failures' = failures + 1
  BY DEF TeardownFails, Rollback
<1>2. verdictBar[r] # "none"
  BY AnsweredGoes DEF Outcome
<1> QED
  BY <1>1, <1>2, AnsweredGoes DEF Reg!Lose, Reg!register

-----------------------------------------------------------------------------
(* The commit after a success is the change that was asked for.            *)

\* What the commit publishes: the customer of the request, and the addresses
\* its transaction has versions of.
LEMMA CommitShows ==
    ASSUME StructureInv, NEW r \in Requests, Teardown(r), NEW c, c = req[r].customer
    PROVE  /\ pc[r] = "respond" /\ RequestOK(r) /\ c \in Customers /\ todo[r] = {}
           /\ customers' = IF newCustomers[r][c] # None
                           THEN [customers EXCEPT ![c] = newCustomers[r][c]] ELSE customers
           /\ newCustomers[r][c] # None => /\ req[r].op \in WritingOps /\ newCustomers[r][c] \in CustomerRow
                                           /\ req[r].op # "CreateCustomer" => customers[c] \in CustomerRow
           /\ addresses' = [a \in Addresses |-> IF newAddresses[r][a] # None THEN newAddresses[r][a]
                                                ELSE addresses[a]]
           /\ \A a \in Addresses : newAddresses[r][a] # None =>
                 /\ newAddresses[r][a] \in AddressRow
                 /\ IF req[r].op \in Creations THEN a \in req[r].fresh ELSE addresses[a] \in AddressRow
           /\ addresses = [a \in Addresses |-> addresses[a]]
<1> USE DEF StructureInv, TypeOK, StoreTypeOK
<1>1. pc[r] = "respond" /\ WriteSetOK(r) /\ LocalOK(r)
  BY DEF Teardown, WriteSetInv, LocalInv
<1>2. RequestOK(r) /\ c \in Customers /\ todo[r] = {}
  BY <1>1, RequestFields DEF LocalOK
<1>3. customers' = IF newCustomers[r][c] # None
                   THEN [customers EXCEPT ![c] = newCustomers[r][c]] ELSE customers
  <2>1. customers' = [d \in Customers |-> IF newCustomers[r][d] # None THEN newCustomers[r][d] ELSE customers[d]]
    BY DEF Teardown, Commit, CommittedCustomer
  <2>2. \A d \in Customers : newCustomers[r][d] # None => d = c
    BY <1>1 DEF WriteSetOK
  <2> QED
    BY <1>2, <2>1, <2>2
<1>4. newCustomers[r][c] # None => /\ req[r].op \in WritingOps /\ newCustomers[r][c] \in CustomerRow
                                   /\ req[r].op # "CreateCustomer" => customers[c] \in CustomerRow
  BY <1>1, <1>2 DEF WriteSetOK
<1>5. addresses' = [a \in Addresses |-> IF newAddresses[r][a] # None THEN newAddresses[r][a]
                                        ELSE addresses[a]]
  BY DEF Teardown, Commit, CommittedAddress
<1>6. \A a \in Addresses : newAddresses[r][a] # None =>
         /\ newAddresses[r][a] \in AddressRow
         /\ IF req[r].op \in Creations THEN a \in req[r].fresh ELSE addresses[a] \in AddressRow
  BY <1>1 DEF WriteSetOK
<1> QED
  BY <1>1, <1>2, <1>3, <1>4, <1>5, <1>6

\* A row is what its columns are.
LEMMA RowColumns ==
    /\ \A row \in CustomerRow : row = [status |-> row.status, email |-> row.email, ident |-> row.ident]
    /\ \A row \in AddressRow : \A s :
          [owner |-> row.owner, status |-> s] = [row EXCEPT !.status = s]
    /\ \A row \in AddressRow : row = [owner |-> row.owner, status |-> row.status]
BY DEF CustomerRow, AddressRow

LEMMA CreationPublishes ==
    ASSUME StructureInv, NEW r \in Requests, RoleOK(r), DraftOK(r), Teardown(r), code[r] = "OK",
           req[r].op = "CreateCustomer"
    PROVE  Reg!Register(req[r])
<1>1. PICK c, fresh : c = req[r].customer /\ fresh = req[r].fresh
  OBVIOUS
<1>2. pc[r] = "respond" /\ todo[r] = {} /\ fresh \subseteq Addresses
  BY <1>1, CommitShows DEF RequestOK, Request
<1>3. customers[c] = None /\ \A a \in fresh : addresses[a] = None
  BY <1>1 DEF StructureInv, FreshInv, FreshOK
<1>4. newCustomers[r][c] # None
  BY <1>1, <1>2 DEF RoleOK, CreationOK, Proceeds, AfterCustomerWrite
<1>5. newCustomers[r][c] = WantedRow(req[r])
  BY <1>1, <1>4 DEF DraftOK, CustomerDraftOK
<1>6. customers' = [customers EXCEPT ![c] = WantedRow(req[r])]
  BY <1>1, <1>4, <1>5, CommitShows
<1>7. addresses' = [a \in Addresses |-> IF a \in fresh THEN [owner |-> c, status |-> "ACTIVE"]
                                        ELSE addresses[a]]
  <2>1. \A a \in Addresses : newAddresses[r][a] # None <=> a \in fresh
    <3>1. \A a \in fresh : a \in todo[r] \/ newAddresses[r][a] # None
      BY <1>1 DEF RoleOK, CreationOK, Proceeds
    <3>2. \A a \in Addresses : newAddresses[r][a] # None => a \in fresh
      BY <1>1, CommitShows DEF Creations
    <3> QED
      BY <1>2, <3>1, <3>2
  <2>2. \A a \in Addresses : newAddresses[r][a] # None => newAddresses[r][a] = [owner |-> c, status |-> "ACTIVE"]
    BY <1>1 DEF RoleOK, CreationOK, Creations
  <2>3. addresses' = [a \in Addresses |-> IF newAddresses[r][a] # None THEN newAddresses[r][a]
                                          ELSE addresses[a]]
    BY <1>1, CommitShows
  <2> QED
    BY <2>1, <2>2, <2>3
<1> QED
  BY <1>1, <1>3, <1>6, <1>7, Vocabulary DEF Reg!Register

LEMMA UpdatePublishes ==
    ASSUME StructureInv, NEW r \in Requests, DraftOK(r), Teardown(r), code[r] = "OK",
           req[r].op = "UpdateCustomer", NEW kept,
           kept = {k \in Compares(req[r]) : Draft(r)[k] # WantedRow(req[r])[k]}
    PROVE  Reg!Edit(req[r], kept)
<1>1. PICK c, draft : c = req[r].customer /\ draft = newCustomers[r][c]
  OBVIOUS
<1>2. pc[r] = "respond" /\ loaded[r] = None
  BY <1>1, CommitShows DEF DraftOK
<1>3. draft # None /\ \A k \in {"status", "email", "ident"} : draft[k] = WantedRow(req[r])[k] \/ draft[k] = customers[c][k]
  BY <1>1, <1>2 DEF DraftOK, CustomerDraftOK, ColumnOK, Proceeds
<1>4. draft \in CustomerRow /\ customers[c] \in CustomerRow
  BY <1>1, <1>3, CommitShows
<1>5. customers' = [customers EXCEPT ![c] = draft]
  BY <1>1, <1>3, CommitShows
<1>6. addresses' = addresses
  <2>1. \A a \in Addresses : newAddresses[r][a] = None
    BY DEF DraftOK, AddressDraftOK
  <2> QED
    BY <1>1, <2>1, CommitShows
<1>7. kept = {k \in {"status", "email", "ident"} : draft[k] # WantedRow(req[r])[k]}
  BY <1>1 DEF Compares, Draft
<1>8. Reg!Replaced(customers[c], req[r], kept) = draft
  <2>1. PICK wanted : wanted = WantedRow(req[r])
    OBVIOUS
  <2>2. /\ (IF "status" \in kept THEN customers[c].status ELSE wanted.status) = draft.status
        /\ (IF "email" \in kept THEN customers[c].email ELSE wanted.email) = draft.email
        /\ (IF "ident" \in kept THEN customers[c].ident ELSE wanted.ident) = draft.ident
    BY <1>3, <1>7, <2>1
  <2>3. Reg!Replaced(customers[c], req[r], kept) =
           [status |-> draft.status, email |-> draft.email, ident |-> draft.ident]
    BY <2>1, <2>2, Vocabulary DEF Reg!Replaced
  <2> QED
    BY <1>4, <2>3, RowColumns
<1>9. customers[c] # None
  BY <1>4, RowsAssumption
<1> QED
  BY <1>1, <1>5, <1>6, <1>8, <1>9 DEF Reg!Edit

LEMMA DeletionPublishes ==
    ASSUME StructureInv, NEW r \in Requests, RoleOK(r), DraftOK(r), Teardown(r), code[r] = "OK",
           req[r].op = "DeleteCustomer", NEW kept,
           kept = {k \in Compares(req[r]) : Draft(r)[k] # WantedRow(req[r])[k]}
    PROVE  Reg!Remove(req[r], kept)
<1>1. PICK c, draft, gone : /\ c = req[r].customer /\ draft = newCustomers[r][c]
                            /\ gone = {a \in Addresses : newAddresses[r][a] # None}
  OBVIOUS
<1>2. pc[r] = "respond" /\ loaded[r] = None /\ todo[r] = {}
  BY <1>1, CommitShows DEF DraftOK
<1>3. draft # None
  BY <1>1, <1>2 DEF RoleOK, CascadeOK, Proceeds
<1>4. draft \in CustomerRow /\ customers[c] \in CustomerRow /\ c \in Customers
  BY <1>1, <1>3, CommitShows
<1>5. customers' = [customers EXCEPT ![c] = draft]
  BY <1>1, <1>3, CommitShows
<1>6. draft.status = IF "status" \in kept THEN customers[c].status ELSE "DELETED"
  <2>1. draft.status = "DELETED" \/ draft.status = customers[c].status
    BY <1>1, <1>2, <1>3 DEF DraftOK, CustomerDraftOK, ColumnOK, WantedRow, WantedStatus
  <2>2. "status" \in kept <=> draft.status # "DELETED"
    BY <1>1 DEF Compares, Draft, WantedRow, WantedStatus
  <2> QED
    BY <2>1, <2>2
<1>7. \E e \in Emails, i \in Idents :
         customers' = [customers EXCEPT ![c] =
             [status |-> IF "status" \in kept THEN @.status ELSE "DELETED", email |-> e, ident |-> i]]
  <2>1. draft.email \in Emails /\ draft.ident \in Idents
    BY <1>4 DEF CustomerRow
  <2>2. draft = [status |-> IF "status" \in kept THEN customers[c].status ELSE "DELETED",
                 email |-> draft.email, ident |-> draft.ident]
    BY <1>4, <1>6, RowColumns
  <2> QED
    BY <1>5, <2>1, <2>2
<1>8. gone \subseteq {a \in Addresses : addresses[a] # None /\ addresses[a].owner = c}
  <2> SUFFICES ASSUME NEW a \in gone
               PROVE  addresses[a] # None /\ addresses[a].owner = c
    BY <1>1
  <2>1. addresses[a] \in AddressRow
    BY <1>1, CommitShows DEF Creations
  <2>2. addresses[a].owner = c
    BY <1>1 DEF RoleOK, CascadeOK
  <2> QED
    BY <2>1, <2>2, RowsAssumption
<1>9. Reg!Active(c) \ revived \subseteq gone
  <2>1. \A a \in ActiveOf(c) \ revived : a \in todo[r] \/ newAddresses[r][a] # None
    BY <1>1, <1>2 DEF RoleOK, CascadeOK, Proceeds
  <2>2. ActiveOf(c) \subseteq Addresses
    BY DEF ActiveOf
  <2> QED
    BY <1>1, <1>2, <2>1, <2>2, Vocabulary
<1>10. addresses' = [a \in Addresses |-> IF a \in gone THEN [addresses[a] EXCEPT !.status = "DELETED"]
                                         ELSE addresses[a]]
  <2>1. ASSUME NEW a \in gone
        PROVE  newAddresses[r][a] = [addresses[a] EXCEPT !.status = "DELETED"]
    <3>1. newAddresses[r][a] \in AddressRow /\ addresses[a] \in AddressRow /\ addresses[a] # None
      BY <1>1, CommitShows, RowsAssumption DEF Creations
    <3>2. newAddresses[r][a].status = "DELETED" /\ newAddresses[r][a].owner = addresses[a].owner
      BY <1>1, <3>1 DEF RoleOK, CascadeOK, OwnerOK
    <3> QED
      BY <3>1, <3>2, RowColumns
  <2>2. addresses' = [a \in Addresses |-> IF newAddresses[r][a] # None THEN newAddresses[r][a]
                                          ELSE addresses[a]]
    BY <1>1, CommitShows
  <2> QED
    BY <1>1, <2>1, <2>2
<1>11. customers[c] # None
  BY <1>4, RowsAssumption
<1> QED
  BY <1>1, <1>7, <1>8, <1>9, <1>10, <1>11 DEF Reg!Remove

LEMMA NewAddressPublishes ==
    ASSUME StructureInv, NEW r \in Requests, RoleOK(r), DraftOK(r), Teardown(r), code[r] = "OK",
           req[r].op = "CreateAddress"
    PROVE  Reg!MoveIn(req[r])
<1>1. PICK c : c = req[r].customer
  OBVIOUS
<1>2. pc[r] = "respond" /\ RequestOK(r)
  BY <1>1, CommitShows
<1>3. PICK a \in Addresses : req[r].fresh = {a}
  BY <1>2 DEF RequestOK
<1>4. VisibleCustomer(c) /\ Cardinality(ActiveOf(c) \ revived) < MaxAddresses
  BY <1>1, <1>2 DEF RoleOK, CreationOK, Proceeds
<1>5. addresses[a] = None
  BY <1>3 DEF StructureInv, FreshInv, FreshOK
<1>6. newAddresses[r][a] # None /\ \A b \in Addresses \ {a} : newAddresses[r][b] = None
  <2>1. newAddresses[r][a] # None
    BY <1>2, <1>3 DEF DraftOK, AddressDraftOK
  <2>2. \A b \in Addresses : newAddresses[r][b] # None => b \in {a}
    BY <1>1, <1>3, CommitShows DEF Creations
  <2> QED
    BY <2>1, <2>2
<1>7. newAddresses[r][a] = [owner |-> c, status |-> "ACTIVE"]
  BY <1>1, <1>6 DEF RoleOK, CreationOK, Creations
<1>8. addresses' = [addresses EXCEPT ![a] = [owner |-> c, status |-> "ACTIVE"]]
  <2>1. /\ addresses = [b \in Addresses |-> addresses[b]]
        /\ addresses' = [b \in Addresses |-> IF newAddresses[r][b] # None THEN newAddresses[r][b]
                                             ELSE addresses[b]]
    BY <1>1, CommitShows
  <2> QED
    BY <1>6, <1>7, <2>1
<1>9. customers' = customers
  BY <1>1, CommitShows DEF WritingOps
<1>10. Reg!CustomerThere(req[r])
  BY <1>1, <1>4, Vocabulary DEF Reg!CustomerThere
<1>11. Reg!Cardinality(Reg!Active(c) \ revived) < MaxAddresses
  BY <1>4, Vocabulary
<1> QED
  BY <1>1, <1>3, <1>5, <1>8, <1>9, <1>10, <1>11 DEF Reg!MoveIn

LEMMA AddressPublishes ==
    ASSUME StructureInv, NEW r \in Requests, RoleOK(r), DraftOK(r), Teardown(r), code[r] = "OK",
           req[r].op \in {"UpdateAddress", "DeleteAddress"}, NEW kept,
           kept = {k \in Compares(req[r]) : Draft(r)[k] # WantedRow(req[r])[k]}
    PROVE  Reg!Mark(req[r], kept)
<1>1. PICK c, a, draft : c = req[r].customer /\ a = req[r].address /\ draft = newAddresses[r][a]
  OBVIOUS
<1>2. pc[r] = "respond" /\ RequestOK(r) /\ a \in Addresses /\ loaded[r] = None
  BY <1>1, CommitShows DEF RequestOK, DraftOK
<1>3. /\ draft # None /\ addresses[a].owner = c
      /\ draft.status = WantedStatus(req[r]) \/ draft.status = addresses[a].status
      /\ \A b \in Addresses \ {a} : newAddresses[r][b] = None
  BY <1>1, <1>2 DEF DraftOK, AddressDraftOK, ColumnOK, WantedRow
<1>4. draft \in AddressRow /\ addresses[a] \in AddressRow /\ addresses[a] # None
  BY <1>1, <1>2, <1>3, CommitShows, RowsAssumption DEF Creations
<1>5. draft.owner = addresses[a].owner
  BY <1>1, <1>2, <1>3, <1>4 DEF RoleOK, OwnerOK
<1>6. draft.status = IF "status" \in kept THEN addresses[a].status ELSE WantedStatus(req[r])
  <2>1. "status" \in kept <=> draft.status # WantedStatus(req[r])
    BY <1>1 DEF Compares, Draft, WantedRow
  <2> QED
    BY <1>3, <2>1
<1>7. addresses' = [addresses EXCEPT ![a] = draft]
  <2>1. /\ addresses = [b \in Addresses |-> addresses[b]]
        /\ addresses' = [b \in Addresses |-> IF newAddresses[r][b] # None THEN newAddresses[r][b]
                                             ELSE addresses[b]]
    BY <1>1, CommitShows
  <2> QED
    BY <1>1, <1>3, <2>1
<1>8. draft = [addresses[a] EXCEPT !.status = IF "status" \in kept THEN @ ELSE WantedStatus(req[r])]
  BY <1>4, <1>5, <1>6, RowColumns
<1>9. addresses' = [addresses EXCEPT ![a].status = IF "status" \in kept THEN @ ELSE Reg!Wanted(req[r]).status]
  <2>1. Reg!Wanted(req[r]).status = WantedStatus(req[r])
    BY Vocabulary DEF WantedRow
  <2> QED
    BY <1>7, <1>8, <2>1
<1>10. customers' = customers
  BY <1>1, CommitShows DEF WritingOps
<1> QED
  BY <1>1, <1>3, <1>4, <1>9, <1>10 DEF Reg!Mark

LEMMA ReadPublishes ==
    ASSUME StructureInv, NEW r \in Requests, DraftOK(r), Teardown(r), req[r].op = "Read"
    PROVE  UNCHANGED <<customers, addresses>>
<1>1. PICK c : c = req[r].customer
  OBVIOUS
<1>2. \A a \in Addresses : newAddresses[r][a] = None
  BY DEF DraftOK, AddressDraftOK
<1> QED
  BY <1>1, <1>2, CommitShows DEF WritingOps

\* The addresses that count as restored are the visible ones that were DELETED once.
LEMMA RestoredPublished ==
    ASSUME StructureInv, NEW r \in Requests, RoleOK(r), \A a \in revived : VisibleAddress(a), Teardown(r)
    PROVE  revived' = {a \in Addresses : Reg!There(addresses'[a])
                          /\ (a \in revived \/ (addresses[a] # None /\ ~Reg!There(addresses[a])))}
<1> USE DEF StructureInv, TypeOK, StoreTypeOK
<1>1. revived' = (revived \cup {a \in Addresses : Revives(r, a)}) \ {a \in Addresses : Deletes(r, a)}
  BY DEF Teardown
<1>2. ASSUME NEW a \in Addresses
      PROVE  addresses'[a] = IF newAddresses[r][a] # None THEN newAddresses[r][a] ELSE addresses[a]
  BY <1>2 DEF Teardown, Commit, CommittedAddress
<1>3. ASSUME NEW a \in revived'
      PROVE  Reg!There(addresses'[a]) /\ a \in Addresses
               /\ (a \in revived \/ (addresses[a] # None /\ ~Reg!There(addresses[a])))
  <2>1. VisibleAddress(a)'
    BY <1>3, CommitRestores
  <2>2. a \in revived \/ Revives(r, a)
    BY <1>1, <1>3
  <2>3. a \in Addresses
    BY <1>1, <1>3
  <2> QED
    BY <2>1, <2>2, <2>3 DEF VisibleAddress, Revives, Reg!There
<1>4. ASSUME NEW a \in Addresses, Reg!There(addresses'[a]),
             a \in revived \/ (addresses[a] # None /\ ~Reg!There(addresses[a]))
      PROVE  a \in revived'
  <2>1. addresses'[a] # None /\ addresses'[a].status # "DELETED"
    BY <1>4 DEF Reg!There
  <2>2. ~Deletes(r, a)
    BY <1>2, <2>1 DEF Deletes
  <2>3. a \in revived \/ Revives(r, a)
    <3> SUFFICES ASSUME a \notin revived
                 PROVE  Revives(r, a)
      OBVIOUS
    <3>1. addresses[a] # None /\ addresses[a].status = "DELETED"
      BY <1>4 DEF Reg!There
    <3>2. newAddresses[r][a] # None /\ newAddresses[r][a].status # "DELETED"
      BY <1>2, <2>1, <3>1
    <3>3. newAddresses[r][a] \in AddressRow
      BY <3>2
    <3> QED
      BY <3>1, <3>2, <3>3 DEF Revives, AddressRow, Status
  <2> QED
    BY <1>1, <2>2, <2>3
<1> QED
  BY <1>3, <1>4

\* The commit after a success publishes what was asked for, in one step.
LEMMA SuccessPublishes ==
    ASSUME StructureInv, UniqueKeys', DraftInv, NEW r \in Requests, RoleOK(r), Teardown(r), code[r] = "OK"
    PROVE  Reg!Publish(r)
<1>1. DraftOK(r) /\ \A a \in revived : VisibleAddress(a)
  BY DEF DraftInv
<1>2. PICK kept : kept = noticedBar[r]
  OBVIOUS
<1>3. askedBar[r] = req[r] /\ verdictBar[r] = "success" /\ RequestOK(r) /\ Reg!Goes(r)
  BY <1>1, AnsweredGoes DEF Outcome
<1>4. req[r].op \in Rewrites => kept = {k \in Compares(req[r]) : Draft(r)[k] # WantedRow(req[r])[k]}
  BY <1>1, <1>2, AnsweredGoes
<1>5. req[r].op \in AllOperations
  BY <1>3 DEF RequestOK, Request
<1>6. Reg!Change(req[r], kept)
  <2>1. CASE req[r].op = "CreateCustomer"
    BY <1>1, <2>1, CreationPublishes DEF Reg!Change
  <2>2. CASE req[r].op = "UpdateCustomer"
    BY <1>1, <1>4, <2>2, UpdatePublishes DEF Reg!Change, Rewrites
  <2>3. CASE req[r].op = "DeleteCustomer"
    BY <1>1, <1>4, <2>3, DeletionPublishes DEF Reg!Change, Rewrites
  <2>4. CASE req[r].op = "CreateAddress"
    BY <1>1, <2>4, NewAddressPublishes DEF Reg!Change
  <2>5. CASE req[r].op \in {"UpdateAddress", "DeleteAddress"}
    BY <1>1, <1>4, <2>5, AddressPublishes DEF Reg!Change, Rewrites
  <2>6. CASE req[r].op = "Read"
    BY <1>1, <2>6, ReadPublishes DEF Reg!Change
  <2> QED
    BY <1>5, <2>1, <2>2, <2>3, <2>4, <2>5, <2>6 DEF AllOperations
<1>7. Reg!KeysDiffer(customers')
  BY DEF UniqueKeys, Keys, Reg!KeysDiffer
<1>8. failures' = failures
  BY DEF Teardown
<1> QED
  BY <1>1, <1>2, <1>3, <1>6, <1>7, <1>8, RestoredPublished DEF Reg!Publish

-----------------------------------------------------------------------------
(* The refinement.                                                         *)

LEMMA InitRegister == Init => Reg!Init
<1> SUFFICES ASSUME Init
             PROVE  Reg!Init
  OBVIOUS
<1>1. /\ customers = SeedCustomers /\ addresses = SeedAddresses /\ revived = {} /\ failures = 0
      /\ \A r \in Requests : pc[r] = "idle"
  BY DEF Init, StoreInit
<1>2. askedBar = [r \in Requests |-> None] /\ verdictBar = [r \in Requests |-> "none"]
  BY <1>1 DEF askedBar, verdictBar
<1>3. noticedBar = [r \in Requests |-> {}]
  BY <1>1 DEF noticedBar, Seen
<1> QED
  BY <1>1, <1>2, <1>3 DEF Reg!Init

RegisterInv == StructureInv /\ KeysInv /\ AddressInv /\ DraftInv

\* Every step of the service is one of Registry, or leaves it as it is.
LEMMA NextRegister ==
    ASSUME RegisterInv, KeysInv', [Next]_vars
    PROVE  Reg!Next \/ UNCHANGED Reg!vars
<1>1. /\ StructureInv /\ UniqueKeys /\ UniqueKeys' /\ DraftInv
      /\ \A r \in Requests : RoleOK(r) /\ DraftOK(r)
  BY DEF RegisterInv, KeysInv, AddressInv, DraftInv
<1>2. ASSUME NEW r \in Requests, Receive(r) \/ Statement(r) \/ StatementFails(r)
      PROVE  Reg!Next \/ UNCHANGED Reg!vars
  BY <1>1, <1>2, ReceiveArrives, StatementRegister DEF RegStep, Reg!Next
<1>3. ASSUME NEW r \in Requests, Teardown(r) \/ TeardownFails(r)
      PROVE  Reg!Next
  BY <1>1, <1>3, SuccessPublishes, RefusedLeaves, FailedLoses DEF Reg!Next
<1>4. CASE UNCHANGED vars
  BY <1>4 DEF vars, storeVars, requestVars, Reg!vars, Reg!register, askedBar, verdictBar, noticedBar,
              Seen, FactsSeen, ColumnsSeen, Draft
<1> QED
  BY <1>2, <1>3, <1>4 DEF Next, Failure

\* The inductive invariant of the refinement: every transaction has prepared
\* what its request wants, on rows that are still what the request saw of them.
THEOREM DraftsCorrect == Spec => []RegisterInv
<1>1. Init => RegisterInv
  BY InitStructure, InitKeys, InitAddresses, InitDrafts DEF RegisterInv
<1>2. RegisterInv /\ [Next]_vars => RegisterInv'
  BY NextStructure, NextKeys, NextAddresses, NextDrafts DEF RegisterInv
<1> QED
  BY <1>1, <1>2, PTL DEF Spec

\* Commits after the answer: every refusal was justified when it was told and
\* leaves no trace, and every success publishes in one step what was asked for,
\* but for columns the repository found unchanged, however requests interleave.
THEOREM ServiceImplementsRegistry == Spec => ActsAtCommit
<1>1. Init => Reg!Init
  BY InitRegister
<1>2. RegisterInv /\ RegisterInv' /\ [Next]_vars => [Reg!Next]_(Reg!vars)
  BY NextRegister DEF RegisterInv
<1> QED
  BY <1>1, <1>2, DraftsCorrect, PTL DEF Spec, ActsAtCommit, Reg!Spec
=============================================================================
