--------------------------- MODULE SddAddressProofs ---------------------------
(***************************************************************************)
(* Proofs, for every value of the constants, that concurrent requests of   *)
(* SddService keep addresses with their customers and within the limit.    *)
(***************************************************************************)
EXTENDS SddProofs

-----------------------------------------------------------------------------
(* Statements: what is committed does not change.                          *)

Rejections(r) == DuplicateKey(r) \/ DeadlockVictim(r) \/ StatementFails(r)

\* A request that is rolled back has nothing left and is refused.
LEMMA Rejected ==
    ASSUME TypeOK, NEW r \in Requests, Rejections(r)
    PROVE  /\ pc'[r] = "respond" /\ code'[r] # "OK" /\ todo'[r] = {} /\ req'[r] = req[r]
           /\ newCustomers'[r] = NoCustomers /\ newAddresses'[r] = NoAddresses
BY DEF Rejections, DuplicateKey, DeadlockVictim, StatementFails, Rollback, EndTransaction, Reply, Goto,
       ConflictCode, TypeOK, StoreTypeOK, RequestTypeOK

\* ... so that nothing is asked of it.
LEMMA RejectedRole ==
    ASSUME TypeOK, NEW r \in Requests, req[r].customer \in Customers, Rejections(r)
    PROVE  RoleOK(r)'
<1>1. Proceeds(r)' = FALSE
  BY Rejected DEF Proceeds
<1>2. req'[r].customer \in Customers
  BY Rejected
<1>3. CreationOK(r)' /\ OwnerOK(r)'
  BY <1>1, <1>2, Rejected DEF CreationOK, OwnerOK, NoAddresses
<1>4. UpdateOK(r)' /\ CascadeOK(r)' /\ DeletionOK(r)'
  BY <1>1, <1>2, Rejected DEF UpdateOK, CascadeOK, DeletionOK, NoAddresses, NoCustomers
<1> QED
  BY <1>3, <1>4 DEF RoleOK

\* A statement leaves the roles of the other requests as they are.
LEMMA OtherRoles ==
    ASSUME NEW q \in Requests, SameRequest(q), RoleOK(q), UNCHANGED <<customers, addresses, revived>>
    PROVE  RoleOK(q)'
<1>1. \A c : ActiveOf(c)' = ActiveOf(c)
  BY DEF ActiveOf, VisibleAddress
<1>2. \A c : VisibleCustomer(c)' <=> VisibleCustomer(c)
  BY DEF VisibleCustomer
<1>3. CreationOK(q)'
  BY <1>1, <1>2 DEF RoleOK, CreationOK, SameRequest, Proceeds
<1>4. UpdateOK(q)' /\ OwnerOK(q)' /\ DeletionOK(q)'
  BY <1>2 DEF RoleOK, UpdateOK, OwnerOK, DeletionOK, SameRequest
<1>5. CascadeOK(q)'
  BY <1>1 DEF RoleOK, CascadeOK, SameRequest, Proceeds
<1> QED
  BY <1>3, <1>4, <1>5 DEF RoleOK

Reads(r) ==
    \/ GetCustomer(r) \/ GetAddress(r) \/ FindByEmail(r) \/ FindByIdentification(r) \/ Reload(r)
    \/ CountActive(r) \/ SelectAddresses(r) \/ ListAddresses(r)

\* A read that is not the last word of its request keeps its role: what it
\* found is what the role is about.
LEMMA ReadRole ==
    ASSUME StructureInv, NEW r \in Requests, RoleOK(r), Reads(r)
    PROVE  RoleOK(r)'
<1> DEFINE c == req[r].customer  a == req[r].address  op == req[r].op
<1> USE DEF StructureInv, TypeOK, RequestTypeOK
<1>1. Reading /\ pc[r] # "idle"
  BY DEF Reads, GetCustomer, GetAddress, FindByEmail, FindByIdentification, Reload, CountActive,
         SelectAddresses, ListAddresses
<1>2. UNCHANGED <<customers, addresses, revived, newCustomers, newAddresses, lockedCustomers, req>>
  BY <1>1, StatementFrame DEF Reads, Statement, Reading, storeVars
<1>3. RequestOK(r) /\ op \in OpsAt(pc[r]) /\ c \in Customers /\ op \in AllOperations
  BY <1>1, RequestFields DEF RequestOK
<1>4. \A d : ActiveOf(d)' = ActiveOf(d)
  BY <1>2 DEF ActiveOf, VisibleAddress
<1>5. \A d : VisibleCustomer(d)' <=> VisibleCustomer(d)
  BY <1>2 DEF VisibleCustomer
<1>6. ASSUME NEW p, Goto(r, p)
      PROVE  pc'[r] = p
  BY <1>6 DEF Goto
<1>7. ASSUME NEW e, Reply(r, e)
      PROVE  pc'[r] = "respond" /\ code'[r] = e /\ todo'[r] = {}
  BY <1>7, <1>6 DEF Reply
<1>8. OwnerOK(r)'
  BY <1>2 DEF RoleOK, OwnerOK
<1>9. CreationOK(r)'
  <2>1. CASE op \notin Creations
    BY <1>2, <2>1 DEF CreationOK, Creations
  <2>2. CASE op = "CreateCustomer"
    <3>1. CASE FindByEmail(r)
      BY <1>2, <1>6, <2>2, <3>1 DEF FindByEmail, RoleOK, CreationOK, Proceeds, AfterCustomerWrite
    <3>2. CASE FindByIdentification(r)
      <4>1. CASE pc'[r] = "respond" /\ code'[r] # "OK"
        BY <1>2, <2>2, <4>1 DEF RoleOK, CreationOK, Proceeds
      <4>2. CASE pc'[r] = "insertCustomer" /\ todo'[r] = todo[r]
        BY <1>2, <2>2, <3>2, <4>2 DEF RoleOK, CreationOK, Proceeds, AfterCustomerWrite, FindByIdentification
      <4>3. code[r] # "OK"
        BY <2>2, <3>2 DEF FindByIdentification, RoleOK, CreationOK, Proceeds
      <4> QED
        BY <1>6, <1>7, <2>2, <3>2, <4>1, <4>2, <4>3 DEF FindByIdentification
    <3> QED
      BY <1>3, <2>2, <3>1, <3>2
      DEF Reads, GetCustomer, GetAddress, Reload, CountActive, SelectAddresses, ListAddresses, OpsAt, Creations
  <2>3. CASE op = "CreateAddress"
    <3>1. CountActive(r)
      BY <1>3, <2>3
      DEF Reads, GetCustomer, GetAddress, FindByEmail, FindByIdentification, Reload, SelectAddresses,
          ListAddresses, OpsAt, Creations
    <3>2. CASE pc'[r] = "respond" /\ code'[r] # "OK"
      BY <1>2, <2>3, <3>2 DEF RoleOK, CreationOK, Proceeds
    <3>3. CASE RoomForOneMore(Cardinality(ActiveOf(c))) /\ pc'[r] = "addAddress"
      <4>1. IsFiniteSet(ActiveOf(c))
        BY RowsAssumption, FS_Subset DEF ActiveOf
      <4>2. /\ Cardinality(ActiveOf(c) \ revived) <= Cardinality(ActiveOf(c))
            /\ IsFiniteSet(ActiveOf(c) \ revived)
        BY <4>1, FS_Subset
      <4>3. Cardinality(ActiveOf(c)) \in Nat /\ Cardinality(ActiveOf(c) \ revived) \in Nat
        BY <4>1, <4>2, FS_CardinalityType
      <4>4. Cardinality(ActiveOf(c) \ revived) < MaxAddresses
        BY <3>3, <4>2, <4>3, BoundsAssumption DEF RoomForOneMore
      <4>5. c \in lockedCustomers[r] /\ VisibleCustomer(c)
        BY <2>3, <3>1 DEF CountActive, RoleOK, CreationOK, Proceeds
      <4> QED
        BY <1>2, <1>4, <1>5, <2>3, <3>3, <4>4, <4>5 DEF RoleOK, CreationOK
    <3> QED
      BY <1>6, <1>7, <3>1, <3>2, <3>3 DEF CountActive
  <2> QED
    BY <2>1, <2>2, <2>3 DEF Creations
<1>10. UpdateOK(r)'
  <2> SUFFICES ASSUME op = "UpdateCustomer"
               PROVE  UpdateOK(r)'
    BY <1>2 DEF UpdateOK
  <2>1. newCustomers[r][c] # None /\ VisibleCustomer(c) => newCustomers[r][c].status = "ACTIVE"
    BY DEF RoleOK, UpdateOK
  <2>2. ASSUME pc'[r] \in {"findEmail", "findIdent", "reload", "writeCustomer"}
        PROVE  entity'[r].status = "ACTIVE"
    <3>1. CASE GetCustomer(r)
      <4>1. VisibleCustomer(c) /\ entity'[r] = customers[c]
        BY <1>6, <1>7, <2>2, <3>1 DEF GetCustomer
      <4>2. customers[c] \in CustomerRow
        BY <1>3, <4>1 DEF VisibleCustomer, StoreTypeOK
      <4> QED
        BY <4>1, <4>2 DEF VisibleCustomer, CustomerRow, Status
    <3>2. CASE FindByIdentification(r)
      <4>1. entity[r].status = "ACTIVE" /\ entity[r] \in CustomerRow
        BY <3>2 DEF FindByIdentification, RoleOK, UpdateOK, LocalInv, LocalOK
      <4>2. /\ entity' = [entity EXCEPT ![r].email = req[r].email, ![r].ident = req[r].ident]
            /\ req[r].email \in Emails /\ req[r].ident \in Idents
        BY <1>3, <1>7, <2>2, <3>2 DEF FindByIdentification, RequestOK
      <4>3. entity'[r] = [entity[r] EXCEPT !.email = req[r].email, !.ident = req[r].ident]
        BY <4>2
      <4>4. [entity[r] EXCEPT !.email = req[r].email, !.ident = req[r].ident].status = entity[r].status
        BY ONLY <4>1, <4>2, KeyedRow
      <4> QED
        BY ONLY <4>1, <4>3, <4>4
    <3>3. CASE FindByEmail(r) \/ Reload(r)
      BY <3>3 DEF FindByEmail, Reload, RoleOK, UpdateOK
    <3> QED
      BY <1>3, <1>7, <2>2, <3>1, <3>2, <3>3
      DEF Reads, GetAddress, CountActive, SelectAddresses, ListAddresses, OpsAt
  <2> QED
    BY <1>2, <1>5, <2>1, <2>2 DEF UpdateOK
<1>11. CascadeOK(r)'
  <2> SUFFICES ASSUME op = "DeleteCustomer"
               PROVE  CascadeOK(r)'
    BY <1>2 DEF CascadeOK
  <2>1. CASE SelectAddresses(r)
    <3>1. todo'[r] = ActiveOf(c) /\ pc'[r] = IF ActiveOf(c) = {} THEN "list" ELSE "cascade"
      BY <1>6, <2>1 DEF SelectAddresses
    <3>2. newCustomers[r][c] # None
      BY <2>1 DEF SelectAddresses, RoleOK, CascadeOK, Proceeds
    <3>3. \A b \in todo'[r] : addresses[b].owner = c
      BY <3>1 DEF ActiveOf
    <3> QED
      BY <1>2, <1>4, <3>1, <3>2, <3>3 DEF RoleOK, CascadeOK
  <2>2. CASE ListAddresses(r)
    BY <1>2, <1>4, <1>7, <2>2 DEF ListAddresses, RoleOK, CascadeOK, Proceeds
  <2>3. CASE GetCustomer(r)
    <3>1. /\ pc[r] = "getCustomer"
          /\ \/ pc'[r] = "respond" /\ code'[r] # "OK" /\ todo'[r] = {}
             \/ pc'[r] = "reload" /\ todo'[r] = todo[r]
      BY <1>6, <1>7, <2>3 DEF GetCustomer
    <3> QED
      BY <1>2, <1>4, <2>3, <3>1 DEF RoleOK, CascadeOK, Proceeds
  <2>4. CASE Reload(r)
    <3>1. pc[r] = "reload" /\ pc'[r] = "writeCustomer" /\ todo'[r] = todo[r]
      BY <1>6, <2>4 DEF Reload
    <3> QED
      BY <1>2, <1>4, <2>4, <3>1 DEF RoleOK, CascadeOK, Proceeds
  <2> QED
    BY <1>3, <2>1, <2>2, <2>3, <2>4
    DEF Reads, GetAddress, FindByEmail, FindByIdentification, CountActive, OpsAt
<1>12. DeletionOK(r)'
  <2> SUFFICES ASSUME op = "DeleteAddress"
               PROVE  DeletionOK(r)'
    BY <1>2 DEF DeletionOK
  <2>1. CASE GetCustomer(r) \/ GetAddress(r)
    <3>1. \/ pc'[r] \in {"getAddress", "reload"}
          \/ pc'[r] = "respond" /\ code'[r] # "OK"
      BY <1>6, <1>7, <2>1 DEF GetCustomer, GetAddress, AddressError
    <3> QED
      BY <1>2, <3>1 DEF DeletionOK
  <2>2. CASE Reload(r)
    BY <1>2, <1>6, <2>2 DEF Reload, DeletionOK
  <2> QED
    BY <1>3, <2>1, <2>2
    DEF Reads, FindByEmail, FindByIdentification, CountActive, SelectAddresses, ListAddresses, OpsAt
<1> QED
  BY <1>8, <1>9, <1>10, <1>11, <1>12 DEF RoleOK

-----------------------------------------------------------------------------
(* Statements that write.                                                  *)

\* The INSERT, the UPDATE of a customer row and the two index entries leave a
\* customer in the status its operation means it to have.
LEMMA WriteCustomerRole ==
    ASSUME StructureInv, NEW r \in Requests, RoleOK(r),
           InsertCustomer(r) \/ UpdateCustomerRow(r) \/ EnterIndex(r) \/ LockCustomer(r)
    PROVE  RoleOK(r)'
<1> DEFINE c == req[r].customer  op == req[r].op
<1> USE DEF StructureInv, TypeOK, RequestTypeOK
<1>1. UNCHANGED <<customers, addresses, revived, req>>
  BY StatementFrame DEF Statement
<1>2. RequestOK(r) /\ op \in OpsAt(pc[r]) /\ c \in Customers /\ op \in AllOperations
  BY RequestFields DEF RequestOK, InsertCustomer, UpdateCustomerRow, EnterIndex, LockCustomer
<1>3. newAddresses' = newAddresses
  BY DEF InsertCustomer, UpdateCustomerRow, EnterIndex, LockCustomer
<1>4. \A d : ActiveOf(d)' = ActiveOf(d)
  BY <1>1 DEF ActiveOf, VisibleAddress
<1>5. \A d : VisibleCustomer(d)' <=> VisibleCustomer(d)
  BY <1>1 DEF VisibleCustomer
<1>6. ASSUME NEW p, Goto(r, p)
      PROVE  pc'[r] = p
  BY <1>6 DEF Goto
<1>7. ASSUME NEW e, Reply(r, e)
      PROVE  pc'[r] = "respond" /\ code'[r] = e /\ todo'[r] = {}
  BY <1>7, <1>6 DEF Reply
<1>8. OwnerOK(r)'
  BY <1>1, <1>3 DEF RoleOK, OwnerOK
<1>9. CASE InsertCustomer(r)
  <2>1. /\ op = "CreateCustomer" /\ pc'[r] = "emailIndex" /\ todo'[r] = todo[r]
        /\ newCustomers'[r][c] = [status |-> "ACTIVE", email |-> req[r].email, ident |-> req[r].ident]
    BY <1>2, <1>6, <1>9 DEF InsertCustomer, WriteCustomer, StoreTypeOK, OpsAt
  <2>2. [status |-> "ACTIVE", email |-> req[r].email, ident |-> req[r].ident] \in CustomerRow
    BY <1>2, <2>1 DEF RequestOK, CustomerRow, Status
  <2>3. newCustomers'[r][c] # None /\ newCustomers'[r][c].status = "ACTIVE"
    BY <2>1, <2>2, RowsAssumption
  <2>4. CreationOK(r)'
    BY <1>1, <1>3, <1>9, <2>1, <2>3 DEF InsertCustomer, RoleOK, CreationOK, Proceeds, Creations
  <2> QED
    BY <1>1, <1>8, <2>1, <2>4 DEF RoleOK, UpdateOK, CascadeOK, DeletionOK
<1>10. CASE UpdateCustomerRow(r)
  <2> DEFINE new == Merged("status", customers[c], loaded[r], entity[r])
  <2>1. /\ op \in {"UpdateCustomer", "DeleteCustomer"} /\ todo'[r] = todo[r]
        /\ pc[r] = "writeCustomer" /\ pc'[r] = "emailIndex"
        /\ newCustomers'[r][c] # None /\ newCustomers'[r][c].status = new
    <3>1. /\ op \in {"UpdateCustomer", "DeleteCustomer"} /\ pc'[r] = "emailIndex" /\ todo'[r] = todo[r]
          /\ newCustomers'[r][c] = [status |-> new,
                                    email |-> Merged("email", customers[c], loaded[r], entity[r]),
                                    ident |-> Merged("ident", customers[c], loaded[r], entity[r])]
      BY <1>2, <1>6, <1>10 DEF UpdateCustomerRow, WriteCustomer, StoreTypeOK, OpsAt
    <3>2. newCustomers'[r][c] # None
      <4>1. WriteSetOK(r)' /\ c = req'[r].customer /\ pc'[r] = "emailIndex"
        BY <1>1, <1>10, <3>1, WriteSetStep DEF Statement
      <4> QED
        BY <4>1 DEF WriteSetOK
    <3> QED
      BY <1>10, <3>1, <3>2 DEF UpdateCustomerRow
  <2>2. ASSUME op = "UpdateCustomer", VisibleCustomer(c)
        PROVE  new = "ACTIVE"
    <3>1. entity[r].status = "ACTIVE"
      BY <1>10, <2>2 DEF UpdateCustomerRow, RoleOK, UpdateOK
    <3>2. customers[c].status = "ACTIVE"
      BY <1>2, <2>2 DEF VisibleCustomer, StoreTypeOK, CustomerRow, Status
    <3> QED
      BY <3>1, <3>2 DEF Merged
  <2>3. UpdateOK(r)'
    BY <1>1, <1>5, <2>1, <2>2 DEF UpdateOK
  <2>4. CascadeOK(r)'
    BY <1>1, <1>3, <2>1 DEF RoleOK, CascadeOK
  <2> QED
    BY <1>1, <1>8, <2>1, <2>3, <2>4 DEF RoleOK, CreationOK, DeletionOK, Creations
<1>11. CASE EnterIndex(r)
  <2>1. /\ op \in WritingOps /\ pc[r] \in {"emailIndex", "identIndex"}
        /\ newCustomers' = newCustomers
    BY <1>2, <1>11 DEF EnterIndex, OpsAt, WritingOps
  <2>2. \/ /\ pc'[r] \in {"identIndex", "addAddress", "selectAddresses", "list"} /\ todo'[r] = todo[r]
           /\ pc'[r] = "list" => op = "UpdateCustomer"
        \/ /\ pc'[r] = "respond" /\ code'[r] = "OK" /\ todo'[r] = {} /\ todo[r] = {}
           /\ op = "CreateCustomer"
    BY <1>6, <1>7, <1>11, <2>1 DEF EnterIndex, WritingOps
  <2>3. CreationOK(r)'
    BY <1>1, <1>3, <2>1, <2>2 DEF RoleOK, CreationOK, Proceeds, AfterCustomerWrite, WritingOps
  <2>4. UpdateOK(r)'
    BY <1>1, <1>5, <2>1, <2>2 DEF RoleOK, UpdateOK
  <2>5. CascadeOK(r)'
    BY <1>1, <1>3, <2>1, <2>2 DEF RoleOK, CascadeOK, Proceeds
  <2> QED
    BY <1>1, <1>8, <2>1, <2>3, <2>4, <2>5 DEF RoleOK, DeletionOK, WritingOps
<1>12. CASE LockCustomer(r)
  <2>1. op = "CreateAddress" /\ UNCHANGED newCustomers
    BY <1>2, <1>12 DEF LockCustomer, OpsAt
  <2>2. \/ pc'[r] = "respond" /\ code'[r] # "OK"
        \/ pc'[r] = "count" /\ c \in lockedCustomers'[r] /\ VisibleCustomer(c)
    BY <1>6, <1>7, <1>12 DEF LockCustomer, StoreTypeOK
  <2>3. CreationOK(r)'
    BY <1>1, <1>3, <1>5, <2>1, <2>2 DEF RoleOK, CreationOK, Proceeds
  <2> QED
    BY <1>1, <1>8, <2>1, <2>3 DEF RoleOK, UpdateOK, CascadeOK, DeletionOK
<1> QED
  BY <1>9, <1>10, <1>11, <1>12

\* The writes of address rows.
LEMMA WriteAddressRole ==
    ASSUME StructureInv, NEW r \in Requests, RoleOK(r),
           AddAddress(r) \/ UpdateAddressRow(r) \/ CascadeDelete(r)
    PROVE  RoleOK(r)'
<1> DEFINE c == req[r].customer  a == req[r].address  op == req[r].op
<1> USE DEF StructureInv, TypeOK, RequestTypeOK
<1>1. UNCHANGED <<customers, addresses, revived, req>>
  BY StatementFrame DEF Statement
<1>2. /\ RequestOK(r) /\ op \in OpsAt(pc[r]) /\ c \in Customers /\ op \in AllOperations
      /\ LocalOK(r) /\ FreshOK(r)
  BY RequestFields DEF RequestOK, AddAddress, UpdateAddressRow, CascadeDelete, LocalInv, FreshInv
<1>3. UNCHANGED <<newCustomers, lockedCustomers>>
  BY DEF AddAddress, UpdateAddressRow, CascadeDelete
<1>4. \A d : ActiveOf(d)' = ActiveOf(d)
  BY <1>1 DEF ActiveOf, VisibleAddress
<1>5. \A d : VisibleCustomer(d)' <=> VisibleCustomer(d)
  BY <1>1 DEF VisibleCustomer
<1>6. ASSUME NEW p, Goto(r, p)
      PROVE  pc'[r] = p
  BY <1>6 DEF Goto
<1>7. ASSUME NEW e, Reply(r, e)
      PROVE  pc'[r] = "respond" /\ code'[r] = e /\ todo'[r] = {}
  BY <1>7, <1>6 DEF Reply
<1>8. CASE AddAddress(r)
  <2> DEFINE row == [owner |-> c, status |-> "ACTIVE"]
  <2>1. PICK b \in todo[r] :
          /\ newAddresses' = [newAddresses EXCEPT ![r][b] = row]
          /\ \/ todo[r] = {b} /\ Reply(r, "OK")
             \/ /\ todo' = [todo EXCEPT ![r] = @ \ {b}]
                /\ Goto(r, "addAddress") /\ code' = code
    BY <1>8 DEF AddAddress, WriteAddress, LastOf
  <2>2. op \in Creations /\ pc[r] = "addAddress" /\ b \in req[r].fresh /\ b \in Addresses
    BY <1>2, <1>8, <2>1 DEF AddAddress, OpsAt, LocalOK
  <2>3. newAddresses'[r][b] = row /\ row # None /\ addresses[b] = None
    BY <1>2, <2>1, <2>2, RowsAssumption DEF StoreTypeOK, AddressRow, Status, FreshOK
  <2>4. \A d \in Addresses : d # b => newAddresses'[r][d] = newAddresses[r][d]
    BY <2>1, <2>2 DEF StoreTypeOK
  <2>5. /\ \A d \in todo[r] : d \in todo'[r] \/ d = b
        /\ \/ pc'[r] = "addAddress"
           \/ pc'[r] = "respond" /\ code'[r] = "OK"
    BY <1>6, <1>7, <2>1
  <2>6. Proceeds(r) /\ Proceeds(r)'
    BY <2>2, <2>5 DEF Proceeds
  <2>7. OwnerOK(r)'
    BY <1>1, <2>3, <2>4 DEF RoleOK, OwnerOK
  <2>8. CreationOK(r)'
    <3>1. \A d \in Addresses : newAddresses'[r][d] # None => newAddresses'[r][d] = row
      BY <2>2, <2>3, <2>4 DEF RoleOK, CreationOK
    <3>2. ASSUME op = "CreateCustomer"
          PROVE  /\ Cardinality(req[r].fresh) <= MaxAddresses
                 /\ \A d \in req[r].fresh : d \in todo'[r] \/ newAddresses'[r][d] # None
                 /\ newCustomers[r][c] # None /\ newCustomers[r][c].status = "ACTIVE"
      <4>1. req[r].fresh \subseteq Addresses
        BY <1>2 DEF RequestOK, Request
      <4> QED
        BY <2>2, <2>3, <2>4, <2>5, <2>6, <3>2, <4>1 DEF RoleOK, CreationOK, AfterCustomerWrite
    <3>3. ASSUME op = "CreateAddress"
          PROVE  /\ c \in lockedCustomers[r] /\ VisibleCustomer(c)
                 /\ Cardinality(ActiveOf(c) \ revived) < MaxAddresses
      BY <2>2, <2>6, <3>3 DEF RoleOK, CreationOK
    <3> QED
      BY <1>1, <1>3, <1>4, <1>5, <2>5, <3>1, <3>2, <3>3 DEF CreationOK
  <2> QED
    BY <1>1, <2>2, <2>7, <2>8 DEF RoleOK, UpdateOK, CascadeOK, DeletionOK, Creations
<1>9. CASE UpdateAddressRow(r)
  <2> DEFINE new == Merged("status", addresses[a], loaded[r], entity[r])
             row == [owner |-> addresses[a].owner, status |-> new]
  <2>1. /\ newAddresses' = [newAddresses EXCEPT ![r][a] = row]
        /\ pc[r] = "writeAddress" /\ pc'[r] = "respond" /\ code'[r] = "OK"
    BY <1>7, <1>9 DEF UpdateAddressRow, WriteAddress
  <2>2. op \in {"UpdateAddress", "DeleteAddress"} /\ a \in Addresses
    BY <1>2, <2>1 DEF OpsAt, RequestOK
  <2>3. addresses[a] # None /\ entity[r] \in AddressRow /\ loaded[r] \in AddressRow
    BY <1>2, <2>1, <2>2 DEF LocalOK
  <2>4. new \in Status /\ addresses[a] \in AddressRow
    BY <2>2, <2>3 DEF Merged, StoreTypeOK, AddressRow
  <2>5. row # None
    BY <2>4, RowsAssumption DEF AddressRow
  <2>6. newAddresses'[r][a] = row
    BY <2>1, <2>2 DEF StoreTypeOK
  <2>7. \A d \in Addresses : d # a => newAddresses'[r][d] = newAddresses[r][d]
    BY <2>1, <2>2 DEF StoreTypeOK
  <2>8. OwnerOK(r)'
    BY <1>1, <2>6, <2>7 DEF RoleOK, OwnerOK
  <2>9. ASSUME op = "DeleteAddress"
        PROVE  new = "DELETED" \/ a \in revived
    <3>1. entity[r].status = "DELETED"
      BY <1>2, <2>1, <2>9 DEF LocalOK
    <3>2. loaded[r].status = "DELETED" => addresses[a].status = "DELETED" \/ a \in revived
      BY <2>1, <2>9 DEF RoleOK, DeletionOK
    <3> QED
      BY <3>1, <3>2 DEF Merged
  <2>10. DeletionOK(r)'
    BY <1>1, <2>1, <2>5, <2>6, <2>9 DEF DeletionOK
  <2> QED
    BY <1>1, <2>2, <2>8, <2>10 DEF RoleOK, CreationOK, UpdateOK, CascadeOK, Creations
<1>10. CASE CascadeDelete(r)
  <2>1. PICK b \in todo[r] :
          /\ newAddresses' = [newAddresses EXCEPT ![r][b] = [addresses[b] EXCEPT !.status = "DELETED"]]
          /\ todo' = [todo EXCEPT ![r] = @ \ {b}]
          /\ Goto(r, IF todo[r] = {b} THEN "list" ELSE "cascade")
    BY <1>10 DEF CascadeDelete, WriteAddress
  <2>2. op = "DeleteCustomer" /\ pc[r] = "cascade" /\ b \in Addresses
    BY <1>2, <1>10, <2>1 DEF CascadeDelete, OpsAt
  <2>3. addresses[b] # None /\ addresses[b].owner = c
    BY <1>2, <2>1, <2>2 DEF LocalOK, RoleOK, CascadeOK
  <2>4. addresses[b] \in AddressRow
    BY <2>2, <2>3 DEF StoreTypeOK
  <2>5. /\ newAddresses'[r][b] # None /\ newAddresses'[r][b].status = "DELETED"
        /\ newAddresses'[r][b].owner = addresses[b].owner
    BY <2>1, <2>2, <2>4, StatusRow, RowsAssumption DEF StoreTypeOK, AddressRow, Status
  <2>6. \A d \in Addresses : d # b => newAddresses'[r][d] = newAddresses[r][d]
    BY <2>1, <2>2 DEF StoreTypeOK
  <2>7. todo'[r] = todo[r] \ {b} /\ pc'[r] = IF todo[r] = {b} THEN "list" ELSE "cascade"
    BY <1>6, <2>1
  <2>8. OwnerOK(r)'
    BY <1>1, <2>5, <2>6 DEF RoleOK, OwnerOK
  <2>9. Proceeds(r) /\ CascadeOK(r)
    BY <2>2 DEF Proceeds, RoleOK
  <2>10. CascadeOK(r)'
    <3>1. \A d \in Addresses : newAddresses'[r][d] # None =>
              newAddresses'[r][d].status = "DELETED" /\ addresses[d].owner = c
      BY <2>2, <2>3, <2>5, <2>6, <2>9 DEF CascadeOK
    <3>2. \A d \in todo'[r] : addresses[d].owner = c
      BY <2>2, <2>7, <2>9 DEF CascadeOK
    <3>3. pc'[r] # "cascade" => todo'[r] = {}
      BY <2>1, <2>7
    <3>4. newCustomers[r][c] # None
      BY <2>2, <2>9 DEF CascadeOK
    <3>5. \A d \in ActiveOf(c) \ revived : d \in todo'[r] \/ newAddresses'[r][d] # None
      <4>1. \A d \in ActiveOf(c) \ revived : d \in todo[r] \/ newAddresses[r][d] # None
        BY <2>2, <2>9 DEF CascadeOK
      <4>2. ActiveOf(c) \subseteq Addresses
        BY DEF ActiveOf
      <4> QED
        BY <2>5, <2>6, <2>7, <4>1, <4>2
    <3> QED
      BY <1>1, <1>3, <1>4, <3>1, <3>2, <3>3, <3>4, <3>5 DEF CascadeOK
  <2> QED
    BY <1>1, <2>2, <2>8, <2>10 DEF RoleOK, CreationOK, UpdateOK, DeletionOK, Creations
<1> QED
  BY <1>8, <1>9, <1>10

-----------------------------------------------------------------------------
(* The end of a transaction.                                               *)

\* What a transaction publishes was published before or created by it.
LEMMA Published ==
    ASSUME StructureInv, NEW r \in Requests, RoleOK(r), Teardown(r)
    PROVE  \A a \in Addresses :
              /\ addresses[a] # None =>
                    addresses'[a] # None /\ addresses'[a].owner = addresses[a].owner
              /\ newAddresses[r][a] = None =>
                    addresses'[a] = addresses[a] /\ (a \in revived' <=> a \in revived)
              /\ newAddresses[r][a] # None =>
                    /\ addresses'[a] = newAddresses[r][a]
                    /\ addresses'[a].status = "DELETED" => a \notin revived'
                    /\ addresses'[a].status = "ACTIVE" /\ addresses[a] # None
                          => (a \in revived' <=> a \in revived \/ addresses[a].status = "DELETED")
<1> USE DEF StructureInv, TypeOK, StoreTypeOK
<1> SUFFICES ASSUME NEW a \in Addresses
             PROVE  /\ addresses[a] # None =>
                          addresses'[a] # None /\ addresses'[a].owner = addresses[a].owner
                    /\ newAddresses[r][a] = None =>
                          addresses'[a] = addresses[a] /\ (a \in revived' <=> a \in revived)
                    /\ newAddresses[r][a] # None =>
                          /\ addresses'[a] = newAddresses[r][a]
                          /\ addresses'[a].status = "DELETED" => a \notin revived'
                          /\ addresses'[a].status = "ACTIVE" /\ addresses[a] # None
                                => (a \in revived' <=> a \in revived \/ addresses[a].status = "DELETED")
  OBVIOUS
<1>1. addresses'[a] = IF newAddresses[r][a] # None THEN newAddresses[r][a] ELSE addresses[a]
  BY DEF Teardown, Commit, CommittedAddress
<1>2. a \in revived' <=> (a \in revived \/ Revives(r, a)) /\ ~Deletes(r, a)
  BY DEF Teardown
<1>3. CASE newAddresses[r][a] = None
  BY <1>1, <1>2, <1>3 DEF Revives, Deletes
<1>4. CASE newAddresses[r][a] # None
  <2>1. addresses[a] # None => newAddresses[r][a].owner = addresses[a].owner
    BY <1>4 DEF RoleOK, OwnerOK
  <2> QED
    BY <1>1, <1>2, <1>4, <2>1 DEF Revives, Deletes
<1> QED
  BY <1>3, <1>4

\* An address that becomes visible, or loses the mark of an update, is a new one
\* of its own customer, which the transaction locked or created.
LEMMA Appears ==
    ASSUME StructureInv, NEW r \in Requests, RoleOK(r), Teardown(r),
           NEW a \in Addresses, VisibleAddress(a)', a \notin revived'
    PROVE  \/ VisibleAddress(a) /\ a \notin revived /\ addresses'[a].owner = addresses[a].owner
           \/ /\ req[r].op \in Creations /\ code[r] = "OK" /\ a \in req[r].fresh
              /\ addresses'[a].owner = req[r].customer
<1> USE DEF StructureInv, TypeOK, StoreTypeOK
<1>1. addresses'[a] # None /\ addresses'[a].status # "DELETED"
  BY DEF VisibleAddress
<1>2. CASE newAddresses[r][a] = None
  BY <1>1, <1>2, Published DEF VisibleAddress
<1>3. CASE newAddresses[r][a] # None
  <2>1. /\ addresses'[a] = newAddresses[r][a] /\ newAddresses[r][a] \in AddressRow
        /\ addresses'[a].status = "ACTIVE"
    BY <1>1, <1>3, Published DEF AddressRow, Status
  <2>2. CASE addresses[a] # None
    <3>1. addresses[a] \in AddressRow
      BY <2>2
    <3> QED
      BY <1>3, <2>1, <2>2, <3>1, Published DEF VisibleAddress, AddressRow, Status
  <2>3. CASE addresses[a] = None
    <3>1. WriteSetOK(r) /\ pc[r] = "respond" /\ code[r] = "OK"
      BY <1>3 DEF WriteSetInv, WriteSetOK, Teardown
    <3>2. req[r].op \in Creations /\ a \in req[r].fresh
      BY <1>3, <2>3, <3>1 DEF WriteSetOK
    <3>3. newAddresses[r][a].owner = req[r].customer
      BY <1>3, <3>2 DEF RoleOK, CreationOK
    <3> QED
      BY <2>1, <3>1, <3>2, <3>3
  <2> QED
    BY <2>2, <2>3
<1> QED
  BY <1>2, <1>3

\* A committed customer changes only at the hands of the transaction that has it
\* locked, and then to what that transaction wrote.
LEMMA CustomerKept ==
    ASSUME StructureInv, NEW r \in Requests, Teardown(r), NEW c \in Customers
    PROVE  \/ customers'[c] = customers[c]
           \/ /\ newCustomers[r][c] # None /\ customers'[c] = newCustomers[r][c]
              /\ c = req[r].customer /\ c \in lockedCustomers[r]
              /\ req[r].op \in WritingOps /\ code[r] = "OK"
BY DEF StructureInv, WriteSetInv, WriteSetOK, Teardown, Commit, CommittedCustomer

\* The customer of a creation is nobody else's as long as it is not committed.
LEMMA CreatorLocks ==
    ASSUME StructureInv, NEW r \in Requests, RoleOK(r), pc[r] = "respond",
           req[r].op \in Creations, code[r] = "OK"
    PROVE  /\ req[r].customer \in Customers
           /\ req[r].op = "CreateCustomer" => customers[req[r].customer] = None
           /\ req[r].customer \in lockedCustomers[r]
<1>1. RequestOK(r) /\ req[r].customer \in Customers
  BY RequestFields DEF StructureInv
<1>2. CASE req[r].op = "CreateCustomer"
  <2>1. newCustomers[r][req[r].customer] # None
    BY <1>2 DEF RoleOK, CreationOK, Proceeds, AfterCustomerWrite
  <2> QED
    BY <1>1, <1>2, <2>1 DEF StructureInv, WriteSetInv, WriteSetOK, FreshInv, FreshOK
<1>3. CASE req[r].op = "CreateAddress"
  BY <1>1, <1>3 DEF RoleOK, CreationOK, Proceeds
<1> QED
  BY <1>2, <1>3 DEF Creations

\* A commit gives no address to the customer of another transaction that holds
\* its lock.
LEMMA NothingAdded ==
    ASSUME StructureInv, NEW r \in Requests, RoleOK(r), Teardown(r), NEW c \in Customers,
           c \notin lockedCustomers[r]
    PROVE  (ActiveOf(c) \ revived)' \subseteq ActiveOf(c) \ revived
<1> SUFFICES ASSUME NEW a \in Addresses, VisibleAddress(a)', addresses'[a].owner = c, a \notin revived'
             PROVE  a \in ActiveOf(c) \ revived
  BY DEF ActiveOf
<1>1. pc[r] = "respond"
  BY DEF Teardown
<1>2. ~(req[r].op \in Creations /\ code[r] = "OK" /\ addresses'[a].owner = req[r].customer)
  BY <1>1, CreatorLocks
<1> QED
  BY <1>2, Appears DEF ActiveOf

\* A request whose transaction ended has no role.
LEMMA Ended ==
    ASSUME TypeOK, NEW r \in Requests, Teardown(r) \/ TeardownFails(r)
    PROVE  RoleOK(r)'
<1>1. req'[r] = NoRequest /\ newAddresses'[r] = NoAddresses
  BY TeardownFrame
<1>2. NoRequest.op = "None"
  BY DEF NoRequest
<1> QED
  BY <1>1, <1>2 DEF RoleOK, CreationOK, UpdateOK, CascadeOK, DeletionOK, OwnerOK, Creations, NoAddresses

\* A commit leaves the other requests in their roles: what they depend on is
\* locked by them, or only grows.
LEMMA CommitAside ==
    ASSUME StructureInv, NEW r \in Requests, RoleOK(r), Teardown(r),
           NEW q \in Requests \ {r}, RoleOK(q)
    PROVE  RoleOK(q)'
<1>0. PICK c : c = req[q].customer
  OBVIOUS
<1> DEFINE a == req[q].address  op == req[q].op
<1> USE <1>0 DEF StructureInv, TypeOK, StoreTypeOK
<1>1. SameRequest(q)
  BY TeardownFrame
<1>2. Disjoint(r, q) /\ WriteSetOK(q) /\ LocalOK(q)
  BY DEF WriteSetInv, LocalInv
<1>3. \/ pc[q] = "idle" /\ req[q] = NoRequest
      \/ RequestOK(q) /\ c \in Customers
  BY RequestFields DEF RequestInv
<1>4. ASSUME c \in lockedCustomers[q], c \in Customers
      PROVE  /\ customers'[c] = customers[c]
             /\ VisibleCustomer(c)' <=> VisibleCustomer(c)
             /\ (ActiveOf(c) \ revived)' \subseteq ActiveOf(c) \ revived
  <2>1. c \notin lockedCustomers[r]
    BY <1>2, <1>4 DEF Disjoint
  <2>2. (ActiveOf(c) \ revived)' \subseteq ActiveOf(c) \ revived
    BY <1>4, <2>1, NothingAdded
  <2>3. customers'[c] = customers[c]
    BY <1>4, <2>1, CustomerKept
  <2> QED
    BY <2>2, <2>3 DEF VisibleCustomer
<1>5. CreationOK(q)'
  <2>1. CASE op # "CreateAddress"
    BY <1>1, <2>1 DEF SameRequest, RoleOK, CreationOK, Proceeds
  <2>2. CASE op = "CreateAddress" /\ ~Proceeds(q)
    BY <1>1, <2>2 DEF SameRequest, RoleOK, CreationOK, Proceeds
  <2>3. CASE op = "CreateAddress" /\ Proceeds(q)
    <3>1. CASE pc[q] \notin {"count", "addAddress", "respond"}
      BY <1>1, <2>3, <3>1 DEF SameRequest, RoleOK, CreationOK
    <3>2. CASE pc[q] \in {"count", "addAddress", "respond"}
      <4>1. c \in lockedCustomers[q] /\ VisibleCustomer(c) /\ c \in Customers
        BY <1>3, <2>3, <3>2 DEF RoleOK, CreationOK
      <4>2. pc[q] \in {"addAddress", "respond"} => Cardinality((ActiveOf(c) \ revived)') < MaxAddresses
        <5> SUFFICES ASSUME pc[q] \in {"addAddress", "respond"}
                     PROVE  Cardinality((ActiveOf(c) \ revived)') < MaxAddresses
          OBVIOUS
        <5> DEFINE S == ActiveOf(c) \ revived  T == (ActiveOf(c) \ revived)'
        <5>1. Cardinality(S) < MaxAddresses
          BY <2>3 DEF RoleOK, CreationOK
        <5>2. T \subseteq S /\ S \subseteq Addresses
          BY <1>4, <4>1 DEF ActiveOf
        <5> HIDE DEF S, T
        <5>3. IsFiniteSet(S) /\ IsFiniteSet(T) /\ Cardinality(T) <= Cardinality(S)
          BY <5>2, RowsAssumption, FS_Subset
        <5>4. Cardinality(S) \in Nat /\ Cardinality(T) \in Nat
          BY <5>3, FS_CardinalityType
        <5>5. Cardinality(T) < MaxAddresses
          BY <5>1, <5>3, <5>4, BoundsAssumption
        <5> QED
          BY <5>5 DEF T
      <4> QED
        BY <1>1, <1>4, <2>3, <4>1, <4>2 DEF SameRequest, RoleOK, CreationOK, Creations
    <3> QED
      BY <3>1, <3>2
  <2> QED
    BY <2>1, <2>2, <2>3
<1>6. UpdateOK(q)'
  <2> SUFFICES ASSUME op = "UpdateCustomer"
               PROVE  UpdateOK(q)'
    BY <1>1 DEF UpdateOK, SameRequest
  <2>1. c \in Customers
    BY <1>3 DEF NoRequest
  <2>2. newCustomers[q][c] # None => (VisibleCustomer(c)' <=> VisibleCustomer(c))
    BY <1>2, <1>4, <2>1 DEF WriteSetOK
  <2> QED
    BY <1>1, <2>2 DEF RoleOK, UpdateOK, SameRequest
<1>7. CascadeOK(q)'
  <2> SUFFICES ASSUME op = "DeleteCustomer"
               PROVE  CascadeOK(q)'
    BY <1>1 DEF CascadeOK, SameRequest
  <2>1. c \in Customers /\ RequestOK(q)
    BY <1>3 DEF NoRequest
  <2>2. \A b \in Addresses : newAddresses[q][b] # None => addresses[b] # None
    BY <1>2 DEF WriteSetOK, Creations
  <2>3. \A b \in Addresses : addresses[b] # None => addresses'[b].owner = addresses[b].owner
    BY Published
  <2>4. \A b \in todo[q] : b \in Addresses /\ addresses'[b].owner = c
    <3> SUFFICES ASSUME NEW b \in todo[q]
                 PROVE  b \in Addresses /\ addresses'[b].owner = c
      OBVIOUS
    <3>1. b \in Addresses /\ addresses[b].owner = c
      BY DEF RequestTypeOK, RoleOK, CascadeOK
    <3>2. pc[q] = "cascade" /\ addresses[b] # None
      BY <1>2 DEF RoleOK, CascadeOK, LocalOK
    <3> QED
      BY <2>3, <3>1, <3>2
  <2>5. newCustomers[q][c] # None => (ActiveOf(c) \ revived)' \subseteq ActiveOf(c) \ revived
    BY <1>2, <1>4, <2>1 DEF WriteSetOK
  <2>6. \A b \in Addresses : newAddresses[q][b] # None =>
            newAddresses[q][b].status = "DELETED" /\ addresses'[b].owner = c
    BY <2>2, <2>3 DEF RoleOK, CascadeOK
  <2>7. CascadeOK(q)
    BY DEF RoleOK
  <2> QED
    BY <1>1, <2>4, <2>5, <2>6, <2>7 DEF CascadeOK, Proceeds, SameRequest
<1>8. DeletionOK(q)'
  <2> SUFFICES ASSUME op = "DeleteAddress"
               PROVE  DeletionOK(q)'
    BY <1>1 DEF DeletionOK, SameRequest
  <2>1. a \in Addresses
    BY <1>3 DEF NoRequest, RequestOK
  <2>2. ASSUME addresses[a] # None, addresses[a].status = "DELETED" \/ a \in revived
        PROVE  addresses'[a].status = "DELETED" \/ a \in revived'
    <3>1. CASE newAddresses[r][a] = None
      BY <2>1, <2>2, <3>1, Published
    <3>2. CASE newAddresses[r][a] # None
      <4>1. newAddresses[r][a].status \in Status
        BY <2>1, <3>2 DEF AddressRow
      <4> QED
        BY <2>1, <2>2, <3>2, <4>1, Published DEF Status
    <3> QED
      BY <3>1, <3>2
  <2>3. pc[q] = "writeAddress" => addresses[a] # None
    BY <1>2 DEF LocalOK
  <2>4. newAddresses[q][a] # None => (a \in revived' <=> a \in revived)
    <3>1. newAddresses[q][a] # None => newAddresses[r][a] = None
      BY <1>2, <2>1 DEF Disjoint
    <3> QED
      BY <2>1, <3>1, Published
  <2> QED
    BY <1>1, <2>2, <2>3, <2>4 DEF RoleOK, DeletionOK, SameRequest
<1>9. OwnerOK(q)'
  <2> SUFFICES ASSUME NEW b \in Addresses, newAddresses[q][b] # None, addresses'[b] # None
               PROVE  newAddresses[q][b].owner = addresses'[b].owner
    BY <1>1 DEF OwnerOK, SameRequest
  <2>1. newAddresses[r][b] = None
    BY <1>2 DEF Disjoint
  <2>2. addresses'[b] = addresses[b]
    BY <2>1, Published
  <2> QED
    BY <2>2 DEF RoleOK, OwnerOK
<1> QED
  BY <1>5, <1>6, <1>7, <1>8, <1>9 DEF RoleOK

\* A commit leaves no address without its customer: it publishes a customer with
\* or before its addresses, and hides one together with all of them.
LEMMA CommitHouses ==
    ASSUME StructureInv, NoOrphans, NEW r \in Requests, RoleOK(r), Teardown(r)
    PROVE  NoOrphans'
<1> USE DEF StructureInv, TypeOK, StoreTypeOK
<1> SUFFICES ASSUME NEW a \in Addresses, VisibleAddress(a)', a \notin revived'
             PROVE  /\ customers'[addresses'[a].owner] # None
                    /\ customers'[addresses'[a].owner].status # "DELETED"
  BY DEF NoOrphans, VisibleCustomer
<1>1. PICK c : c = addresses'[a].owner
  OBVIOUS
<1>2. pc[r] = "respond"
  BY DEF Teardown
<1>3. CASE VisibleAddress(a) /\ a \notin revived /\ c = addresses[a].owner
  <2>1. c \in Customers /\ VisibleCustomer(c)
    <3>1. addresses[a] \in AddressRow
      BY <1>3 DEF VisibleAddress
    <3> QED
      BY <1>3, <3>1 DEF NoOrphans, AddressRow
  <2>2. CASE customers'[c] = customers[c]
    BY <1>1, <2>1, <2>2 DEF VisibleCustomer
  <2>3. CASE /\ newCustomers[r][c] # None /\ customers'[c] = newCustomers[r][c]
             /\ c = req[r].customer /\ req[r].op \in WritingOps /\ code[r] = "OK"
    <3>1. req[r].op # "CreateCustomer"
      BY <2>1, <2>3 DEF FreshInv, FreshOK, VisibleCustomer
    <3>2. req[r].op # "DeleteCustomer"
      <4> SUFFICES ASSUME req[r].op = "DeleteCustomer"
                   PROVE  FALSE
        OBVIOUS
      <4>1. a \in ActiveOf(c) \ revived
        BY <1>3 DEF ActiveOf
      <4>2. todo[r] = {}
        BY <1>2 DEF LocalInv, LocalOK
      <4>3. newAddresses[r][a] # None /\ newAddresses[r][a].status = "DELETED"
        BY <1>2, <2>3, <4>1, <4>2 DEF RoleOK, CascadeOK, Proceeds
      <4>4. addresses'[a].status = "DELETED"
        BY <4>3, Published
      <4> QED
        BY <4>4 DEF VisibleAddress
    <3>3. newCustomers[r][c].status = "ACTIVE"
      BY <2>1, <2>3, <3>1, <3>2 DEF RoleOK, UpdateOK, WritingOps
    <3> QED
      BY <1>1, <2>3, <3>3
  <2> QED
    BY <2>1, <2>2, <2>3, CustomerKept
<1>4. CASE req[r].op \in Creations /\ code[r] = "OK" /\ c = req[r].customer
  <2>1. c \in Customers
    BY <1>2, <1>4, CreatorLocks
  <2>2. CASE req[r].op = "CreateCustomer"
    <3>1. newCustomers[r][c] # None /\ newCustomers[r][c].status = "ACTIVE"
      BY <1>2, <1>4, <2>2 DEF RoleOK, CreationOK, Proceeds, AfterCustomerWrite
    <3>2. customers'[c] = newCustomers[r][c]
      BY <2>1, <3>1 DEF Teardown, Commit, CommittedCustomer
    <3> QED
      BY <1>1, <3>1, <3>2
  <2>3. CASE req[r].op = "CreateAddress"
    <3>1. VisibleCustomer(c)
      BY <1>2, <1>4, <2>3 DEF RoleOK, CreationOK, Proceeds
    <3>2. customers'[c] = customers[c]
      BY <2>1, <2>3, CustomerKept DEF WritingOps
    <3> QED
      BY <1>1, <3>1, <3>2 DEF VisibleCustomer
  <2> QED
    BY <1>4, <2>2, <2>3 DEF Creations
<1> QED
  BY <1>1, <1>3, <1>4, Appears

\* Sizes of sets of addresses.
LEMMA Smaller ==
    ASSUME NEW S, NEW T, S \subseteq Addresses, T \subseteq S
    PROVE  Cardinality(T) \in Nat /\ Cardinality(S) \in Nat /\ Cardinality(T) <= Cardinality(S)
<1>1. IsFiniteSet(S) /\ IsFiniteSet(T) /\ Cardinality(T) <= Cardinality(S)
  BY RowsAssumption, FS_Subset
<1> QED
  BY <1>1, FS_CardinalityType

\* A commit takes no customer over the limit: it adds addresses to a customer it
\* has locked since they were counted, or to one that had none.
LEMMA CommitWithinLimit ==
    ASSUME StructureInv, NoOrphans, AddressLimit, NEW r \in Requests, RoleOK(r), Teardown(r)
    PROVE  AddressLimit'
<1> USE DEF StructureInv, TypeOK, StoreTypeOK
<1> SUFFICES ASSUME NEW c \in Customers
             PROVE  Cardinality((ActiveOf(c) \ revived)') <= MaxAddresses
  BY DEF AddressLimit
<1> DEFINE S == ActiveOf(c) \ revived
           T == (ActiveOf(c) \ revived)'
<1> SUFFICES Cardinality(T) <= MaxAddresses
  OBVIOUS
<1>1. S \in SUBSET Addresses /\ T \in SUBSET Addresses /\ Cardinality(S) <= MaxAddresses
  BY DEF ActiveOf, AddressLimit
<1>2. pc[r] = "respond" /\ req[r].fresh \subseteq Addresses /\ MaxAddresses \in Nat
  BY BoundsAssumption, RequestFields DEF Teardown
<1>3. ASSUME NEW a \in T
      PROVE  \/ a \in S
             \/ req[r].op \in Creations /\ code[r] = "OK" /\ a \in req[r].fresh /\ c = req[r].customer
  <2>1. a \in Addresses /\ VisibleAddress(a)' /\ addresses'[a].owner = c /\ a \notin revived'
    BY DEF ActiveOf
  <2> QED
    BY <2>1, Appears DEF ActiveOf
<1> HIDE DEF S, T
<1>4. CASE T \subseteq S
  <2>1. Cardinality(T) \in Nat /\ Cardinality(S) \in Nat /\ Cardinality(T) <= Cardinality(S)
    BY <1>1, <1>4, Smaller
  <2> QED
    BY <1>1, <1>2, <2>1
<1>5. CASE req[r].op \in Creations /\ code[r] = "OK" /\ c = req[r].customer
  <2>1. CASE req[r].op = "CreateCustomer"
    <3>1. customers[c] = None
      BY <1>2, <1>5, <2>1, CreatorLocks
    <3>2. S = {}
      BY <3>1 DEF S, ActiveOf, NoOrphans, VisibleCustomer
    <3>3. T \subseteq req[r].fresh
      BY <1>3, <3>2
    <3>4. Cardinality(req[r].fresh) <= MaxAddresses
      BY <1>2, <1>5, <2>1 DEF RoleOK, CreationOK, Proceeds
    <3>5. /\ Cardinality(T) \in Nat /\ Cardinality(req[r].fresh) \in Nat
          /\ Cardinality(T) <= Cardinality(req[r].fresh)
      BY <1>2, <3>3, Smaller
    <3> QED
      BY <1>2, <3>4, <3>5
  <2>2. CASE req[r].op = "CreateAddress"
    <3>1. PICK b \in Addresses : req[r].fresh = {b}
      BY <1>2, <2>2, RequestFields DEF RequestOK
    <3>2. T \subseteq S \cup {b}
      BY <1>3, <3>1
    <3>3. Cardinality(S) < MaxAddresses
      BY <1>2, <1>5, <2>2 DEF S, RoleOK, CreationOK, Proceeds
    <3>4. IsFiniteSet(S)
      BY <1>1, RowsAssumption, FS_Subset
    <3>5. Cardinality(S) \in Nat
      BY <3>4, FS_CardinalityType
    <3>6. Cardinality(S \cup {b}) <= Cardinality(S) + 1
      <4>1. Cardinality(S \cup {b}) \in {Cardinality(S), Cardinality(S) + 1}
        BY <3>4, FS_AddElement
      <4> QED
        BY <3>5, <4>1
    <3>7. /\ Cardinality(T) \in Nat /\ Cardinality(T) <= Cardinality(S \cup {b})
          /\ Cardinality(S \cup {b}) \in Nat
      BY <1>1, <3>2, Smaller
    <3> QED
      BY <1>2, <3>3, <3>5, <3>6, <3>7
  <2> QED
    BY <1>5, <2>1, <2>2 DEF Creations
<1> QED
  BY <1>3, <1>4, <1>5

-----------------------------------------------------------------------------
(* Every step.                                                             *)

\* A request takes up its role when it is received: the number of addresses
\* that come with a new customer is checked at once.
LEMMA ReceivedRole ==
    ASSUME StructureInv, NEW r \in Requests, Receive(r)
    PROVE  RoleOK(r)'
<1> USE DEF StructureInv, TypeOK
<1>1. RequestOK(r)'
  BY ReceiveType
<1>2. pc[r] = "idle" /\ UNCHANGED storeVars
  BY DEF Receive, Reading
<1>3. /\ pc'[r] \in {"respond", "findEmail", "lockCustomer", "getCustomer"}
      /\ pc'[r] = "respond" => code'[r] # "OK"
      /\ req'[r].op = "CreateCustomer" /\ pc'[r] # "respond" =>
            pc'[r] = "findEmail" /\ Cardinality(req'[r].fresh) <= MaxAddresses
      /\ req'[r].op = "CreateAddress" /\ pc'[r] # "respond" => pc'[r] = "lockCustomer"
      /\ req'[r].op = "UpdateCustomer" /\ pc'[r] # "respond" => pc'[r] = "getCustomer"
      /\ todo'[r] = IF pc'[r] = "respond" THEN {} ELSE req'[r].fresh
  <2>1. PICK q \in Incoming, parsed \in BOOLEAN :
          /\ req'[r] = q
          /\ pc'[r] = IF parsed THEN Entry(q) ELSE "respond"
          /\ code'[r] = IF pc'[r] # "respond" THEN "NONE" ELSE IF parsed THEN "ERR-005" ELSE "VAL"
          /\ todo'[r] = IF pc'[r] # "respond" THEN q.fresh ELSE {}
    BY DEF Receive, RequestTypeOK
  <2>2. q.fresh \subseteq Addresses
    BY <1>1, <2>1 DEF RequestOK, Request
  <2>3. Cardinality(q.fresh) \in Nat /\ MaxAddresses \in Nat
    BY <2>2, Smaller, BoundsAssumption
  <2>4. Cardinality(q.fresh) > MaxAddresses \/ Cardinality(q.fresh) <= MaxAddresses
    BY <2>3
  <2> QED
    BY <2>1, <2>4 DEF Entry
<1>4. /\ \A c \in Customers : newCustomers'[r][c] = None
      /\ \A a \in Addresses : newAddresses'[r][a] = None
  BY <1>2 DEF WriteSetInv, WriteSetOK, AfterCustomerWrite, storeVars
<1>5. req'[r].op = "DeleteCustomer" \/ req'[r].op = "UpdateCustomer" => req'[r].customer \in Customers
  BY <1>1 DEF RequestOK, Request
<1>6. req'[r].op = "DeleteCustomer" => todo'[r] = {}
  BY <1>1, <1>3 DEF RequestOK, Creations
<1>7. CreationOK(r)'
  BY <1>3, <1>4 DEF CreationOK, Proceeds, AfterCustomerWrite
<1>8. UpdateOK(r)' /\ CascadeOK(r)'
  BY <1>3, <1>4, <1>5, <1>6 DEF UpdateOK, CascadeOK, Proceeds
<1>9. DeletionOK(r)' /\ OwnerOK(r)'
  BY <1>3, <1>4 DEF DeletionOK, OwnerOK
<1> QED
  BY <1>7, <1>8, <1>9 DEF RoleOK

LEMMA StatementRole ==
    ASSUME StructureInv, NEW r \in Requests, RoleOK(r), Statement(r) \/ StatementFails(r)
    PROVE  RoleOK(r)'
<1>1. CASE Reads(r)
  BY <1>1, ReadRole
<1>2. CASE Rejections(r)
  <2>1. pc[r] # "idle"
    BY <1>2 DEF Rejections, DuplicateKey, DeadlockVictim, StatementFails, Deadlocked, Waits, RowWait, KeyWait
  <2>2. req[r].customer \in Customers
    BY <2>1, RequestFields DEF StructureInv
  <2> QED
    BY <1>2, <2>2, RejectedRole DEF StructureInv
<1>3. CASE InsertCustomer(r) \/ UpdateCustomerRow(r) \/ EnterIndex(r) \/ LockCustomer(r)
  BY <1>3, WriteCustomerRole
<1>4. CASE AddAddress(r) \/ UpdateAddressRow(r) \/ CascadeDelete(r)
  BY <1>4, WriteAddressRole
<1> QED
  BY <1>1, <1>2, <1>3, <1>4 DEF Statement, Reads, Rejections

\* A step that leaves the committed rows alone keeps NoOrphans and AddressLimit.
LEMMA CommittedKept ==
    ASSUME NoOrphans, AddressLimit, UNCHANGED <<customers, addresses, revived>>
    PROVE  NoOrphans' /\ AddressLimit'
BY DEF NoOrphans, AddressLimit, ActiveOf, VisibleAddress, VisibleCustomer

LEMMA NextAddresses ==
    ASSUME StructureInv, AddressInv, [Next]_vars
    PROVE  AddressInv'
<1> USE DEF AddressInv
<1>1. TypeOK
  BY DEF StructureInv
<1>2. ASSUME NEW r \in Requests, Receive(r)
      PROVE  AddressInv'
  <2>1. /\ UNCHANGED <<customers, addresses, revived>>
        /\ \A q \in Requests \ {r} : SameRequest(q)
    BY <1>1, <1>2 DEF Receive, Reading, NoFailure, storeVars, SameRequest, TypeOK, RequestTypeOK
  <2> QED
    BY <1>2, <2>1, CommittedKept, OtherRoles, ReceivedRole
<1>3. ASSUME NEW r \in Requests, Statement(r) \/ StatementFails(r)
      PROVE  AddressInv'
  BY <1>1, <1>3, StatementFrame, CommittedKept, OtherRoles, StatementRole
<1>4. ASSUME NEW r \in Requests, Teardown(r)
      PROVE  AddressInv'
  BY <1>1, <1>4, CommitHouses, CommitWithinLimit, Ended, CommitAside
<1>5. ASSUME NEW r \in Requests, TeardownFails(r)
      PROVE  AddressInv'
  <2>1. UNCHANGED <<customers, addresses, revived>>
    BY <1>5 DEF TeardownFails, Rollback
  <2>2. \A q \in Requests \ {r} : SameRequest(q)
    BY <1>1, <1>5, TeardownFrame
  <2> QED
    BY <1>1, <1>5, <2>1, <2>2, CommittedKept, OtherRoles, Ended
<1>6. CASE UNCHANGED vars
  <2>1. \A q \in Requests : SameRequest(q)
    BY <1>6 DEF vars, storeVars, requestVars, SameRequest
  <2>2. UNCHANGED <<customers, addresses, revived>>
    BY <1>6 DEF vars, storeVars
  <2> QED
    BY <2>1, <2>2, CommittedKept, OtherRoles
<1> QED
  BY <1>2, <1>3, <1>4, <1>5, <1>6 DEF Next, Failure

LEMMA InitAddresses ==
    ASSUME Init
    PROVE  AddressInv
<1>1. StructureInv
  BY InitStructure
<1>2. NoOrphans
  BY <1>1, SeedAssumption
  DEF Init, StoreInit, NoOrphans, VisibleAddress, VisibleCustomer, StructureInv, TypeOK, StoreTypeOK,
      AddressRow, CustomerRow, Status
<1>3. AddressLimit
  <2> SUFFICES ASSUME NEW c \in Customers
               PROVE  Cardinality(ActiveOf(c) \ revived) <= MaxAddresses
    BY DEF AddressLimit
  <2>1. revived = {} /\ addresses = SeedAddresses
    BY DEF Init, StoreInit
  <2>2. ActiveOf(c) \ revived \subseteq
            {a \in Addresses : SeedAddresses[a] = [owner |-> c, status |-> "ACTIVE"]}
    <3> SUFFICES ASSUME NEW a \in Addresses, VisibleAddress(a), addresses[a].owner = c
                 PROVE  addresses[a] = [owner |-> c, status |-> "ACTIVE"]
      BY <2>1 DEF ActiveOf
    <3> QED
      BY <1>1 DEF VisibleAddress, StructureInv, TypeOK, StoreTypeOK, AddressRow, Status
  <2> DEFINE S == {a \in Addresses : SeedAddresses[a] = [owner |-> c, status |-> "ACTIVE"]}
             T == ActiveOf(c) \ revived
  <2>3. Cardinality(S) <= MaxAddresses /\ S \subseteq Addresses /\ T \subseteq S /\ MaxAddresses \in Nat
    BY <2>2, SeedLimitAssumption, BoundsAssumption
  <2> HIDE DEF S, T
  <2>4. Cardinality(T) \in Nat /\ Cardinality(S) \in Nat /\ Cardinality(T) <= Cardinality(S)
    BY <2>3, Smaller
  <2>5. Cardinality(T) <= MaxAddresses
    BY <2>3, <2>4
  <2> QED
    BY <2>5 DEF T
<1>4. ASSUME NEW r \in Requests
      PROVE  RoleOK(r)
  BY DEF Init, StoreInit, RoleOK, CreationOK, UpdateOK, CascadeOK, DeletionOK, OwnerOK, NoRequest,
         NoAddresses, Creations
<1> QED
  BY <1>2, <1>3, <1>4 DEF AddressInv

-----------------------------------------------------------------------------
(* The theorems.                                                           *)

\* The invariant that carries the properties below holds of every behaviour.
THEOREM AddressesCorrect == Spec => [](StructureInv /\ AddressInv)
<1>1. Init => StructureInv /\ AddressInv
  BY InitStructure, InitAddresses
<1>2. StructureInv /\ AddressInv /\ [Next]_vars => (StructureInv /\ AddressInv)'
  BY NextStructure, NextAddresses
<1> QED
  BY <1>1, <1>2, PTL DEF Spec

\* No address is left without its customer, whatever a deletion of the customer
\* overlapped, unless an update brought the address back.
THEOREM AddressesHoused == Spec => []NoOrphans
<1>1. AddressInv => NoOrphans
  BY DEF AddressInv
<1> QED
  BY <1>1, AddressesCorrect, PTL

\* Concurrent creations never take a customer over the limit, for any limit.
THEOREM LimitKept == Spec => []AddressLimit
<1>1. AddressInv => AddressLimit
  BY DEF AddressInv
<1> QED
  BY <1>1, AddressesCorrect, PTL

\* An answered deletion of an address leaves it DELETED, or an update undid it.
THEOREM DeletionsHold == Spec => []AckedDeletionHolds
<1>1. AddressInv => AckedDeletionHolds
  BY DEF AddressInv, RoleOK, DeletionOK, AckedDeletionHolds, Deletes
<1> QED
  BY <1>1, AddressesCorrect, PTL

\* A transaction that waits for a row while it holds one is a deletion of a
\* customer among its addresses, and waits for none of its own kind.
LEMMA WaitersCascade ==
    ASSUME StructureInv, AddressInv, NEW q \in Requests, NEW p \in Requests, NEW o \in Requests,
           RowWait(o, q), RowWait(q, p)
    PROVE  /\ q # p /\ pc[q] = "cascade" /\ req[q].op = "DeleteCustomer"
           /\ req[q].customer \in Customers /\ req[q].customer \in lockedCustomers[q]
           /\ \E a \in Addresses : newAddresses[p][a] # None /\ addresses[a].owner = req[q].customer
<1> USE DEF StructureInv, TypeOK, RequestTypeOK
<1>1. WriteSetOK(q) /\ RequestInv /\ (pc[o] # "idle" => RequestOK(o))
  BY RequestFields DEF WriteSetInv
<1>2. q # p /\ pc[q] \in {"writeCustomer", "lockCustomer", "writeAddress", "cascade"}
  BY DEF RowWait
<1>3. \/ \E c : c \in lockedCustomers[q]
      \/ \E a \in Addresses : newAddresses[q][a] # None
  <2>1. pc[o] = "writeAddress" => req[o].address \in Addresses
    BY <1>1 DEF RequestOK, OpsAt
  <2> QED
    BY <2>1 DEF RowWait
<1>4. pc[q] = "cascade"
  BY <1>1, <1>2, <1>3 DEF WriteSetOK, AfterCustomerWrite
<1>5. req[q].op = "DeleteCustomer" /\ req[q].customer \in Customers
  BY <1>1, <1>4, RequestFields DEF RequestOK, OpsAt
<1>6. CascadeOK(q)
  BY DEF AddressInv, RoleOK
<1>7. req[q].customer \in lockedCustomers[q]
  BY <1>1, <1>4, <1>5, <1>6 DEF CascadeOK, Proceeds, WriteSetOK
<1>8. PICK a \in todo[q] : newAddresses[p][a] # None
  BY <1>4 DEF RowWait
<1>9. a \in Addresses /\ addresses[a].owner = req[q].customer
  BY <1>5, <1>6, <1>8 DEF CascadeOK
<1> QED
  BY <1>2, <1>4, <1>5, <1>7, <1>8, <1>9

\* Requests never wait for each other's rows in a circle.
THEOREM RowWaitsEnd == Spec => []NoRowDeadlock
<1>1. StructureInv /\ AddressInv => NoRowDeadlock
  <2> SUFFICES ASSUME StructureInv, AddressInv, NEW S \in SUBSET Requests, S # {},
                      \A r \in S : \E q \in S : RowWait(r, q)
               PROVE  FALSE
    BY DEF NoRowDeadlock
  <2>1. PICK o \in S, q \in S, p \in S, n \in S : RowWait(o, q) /\ RowWait(q, p) /\ RowWait(p, n)
    OBVIOUS
  <2>2. o \in Requests /\ q \in Requests /\ p \in Requests /\ n \in Requests
    OBVIOUS
  <2>3. /\ p # q /\ req[p].op = "DeleteCustomer"
        /\ req[q].customer \in lockedCustomers[q] /\ req[p].customer \in lockedCustomers[p]
    BY <2>1, <2>2, WaitersCascade
  <2>4. PICK a \in Addresses : newAddresses[p][a] # None /\ addresses[a].owner = req[q].customer
    BY <2>1, <2>2, WaitersCascade
  <2>5. addresses[a].owner = req[p].customer
    BY <2>2, <2>3, <2>4 DEF AddressInv, RoleOK, CascadeOK
  <2>6. Disjoint(p, q)
    BY <2>2, <2>3 DEF StructureInv
  <2> QED
    BY <2>3, <2>4, <2>5, <2>6 DEF Disjoint
<1> QED
  BY <1>1, AddressesCorrect, PTL

\* No step but the end of a transaction touches a committed row.
LEMMA OnlyCommitsPublish ==
    ASSUME TypeOK, [Next]_vars
    PROVE  \/ UNCHANGED <<customers, addresses>>
           \/ \E r \in Requests : Teardown(r)
<1>1. ASSUME NEW r \in Requests, Receive(r) \/ TeardownFails(r)
      PROVE  UNCHANGED <<customers, addresses>>
  BY <1>1 DEF Receive, Reading, storeVars, TeardownFails, Rollback
<1>2. ASSUME NEW r \in Requests, Statement(r) \/ StatementFails(r)
      PROVE  UNCHANGED <<customers, addresses>>
  BY <1>2, StatementFrame
<1> QED
  BY <1>1, <1>2 DEF Next, Failure, vars, storeVars

\* No row disappears and no address changes hands.
THEOREM RowsStay == Spec => RowsPersist
<1> DEFINE Kept == /\ \A c \in Customers : customers[c] # None => customers'[c] # None
                   /\ \A a \in Addresses : addresses[a] # None =>
                         addresses'[a] # None /\ addresses'[a].owner = addresses[a].owner
<1>1. StructureInv /\ AddressInv /\ [Next]_vars => Kept
  <2> SUFFICES ASSUME StructureInv, AddressInv, [Next]_vars
               PROVE  Kept
    OBVIOUS
  <2>1. CASE UNCHANGED <<customers, addresses>>
    BY <2>1
  <2>2. ASSUME NEW r \in Requests, Teardown(r)
        PROVE  Kept
    <3>1. \A c \in Customers : customers[c] # None => customers'[c] # None
      BY <2>2, TeardownFrame DEF StructureInv
    <3>2. RoleOK(r)
      BY <2>2 DEF AddressInv
    <3>3. \A a \in Addresses : addresses[a] # None =>
             addresses'[a] # None /\ addresses'[a].owner = addresses[a].owner
      BY <2>2, <3>2, Published
    <3> QED
      BY <3>1, <3>3
  <2> QED
    BY <2>1, <2>2, OnlyCommitsPublish DEF StructureInv
<1> QED
  BY <1>1, AddressesCorrect, PTL DEF Spec, RowsPersist

\* A customer appears with all the addresses of its request.
THEOREM CreationsWhole == Spec => CreatedWhole
<1> DEFINE Whole ==
             /\ \A c \in Customers : AppearsCustomer(c) =>
                   \E r \in Requests :
                      /\ req[r].op = "CreateCustomer" /\ req[r].customer = c
                      /\ Cardinality(req[r].fresh) <= MaxAddresses
                      /\ \A a \in req[r].fresh :
                             addresses'[a] = [owner |-> c, status |-> "ACTIVE"]
             /\ \A a \in Addresses : AppearsAddress(a) => customers'[addresses'[a].owner] # None
<1>1. StructureInv /\ AddressInv /\ [Next]_vars => Whole
  <2> SUFFICES ASSUME StructureInv, AddressInv, [Next]_vars
               PROVE  Whole
    OBVIOUS
  <2>1. CASE UNCHANGED <<customers, addresses>>
    BY <2>1 DEF AppearsCustomer, AppearsAddress
  <2>2. ASSUME NEW r \in Requests, Teardown(r)
        PROVE  Whole
    <3>1. /\ RoleOK(r) /\ WriteSetOK(r) /\ LocalOK(r) /\ pc[r] = "respond" /\ todo[r] = {}
          /\ req[r].fresh \subseteq Addresses
      BY <2>2, RequestFields DEF AddressInv, StructureInv, WriteSetInv, LocalInv, LocalOK, Teardown
    <3>2. ASSUME NEW c \in Customers, AppearsCustomer(c)
          PROVE  /\ req[r].op = "CreateCustomer" /\ req[r].customer = c
                 /\ Cardinality(req[r].fresh) <= MaxAddresses
                 /\ \A a \in req[r].fresh :
                        addresses'[a] = [owner |-> c, status |-> "ACTIVE"]
      <4>1. newCustomers[r][c] # None /\ c = req[r].customer /\ c \in lockedCustomers[r] /\ code[r] = "OK"
        BY <2>2, <3>2, CustomerKept DEF AppearsCustomer
      <4>2. req[r].op = "CreateCustomer"
        BY <3>1, <3>2, <4>1 DEF AppearsCustomer, WriteSetOK
      <4>3. /\ Cardinality(req[r].fresh) <= MaxAddresses
            /\ \A a \in req[r].fresh : newAddresses[r][a] = [owner |-> c, status |-> "ACTIVE"]
                                          /\ newAddresses[r][a] # None
        BY <3>1, <4>1, <4>2 DEF RoleOK, CreationOK, Proceeds, Creations
      <4> QED
        BY <2>2, <3>1, <4>1, <4>2, <4>3, Published
    <3>3. ASSUME NEW a \in Addresses, AppearsAddress(a)
          PROVE  customers'[addresses'[a].owner] # None
      <4>1. newAddresses[r][a] # None /\ addresses'[a] = newAddresses[r][a] /\ addresses[a] = None
        BY <2>2, <3>1, <3>3, Published DEF AppearsAddress
      <4>2. code[r] = "OK" /\ req[r].op \in Creations
        BY <3>1, <4>1 DEF WriteSetOK
      <4>3. addresses'[a].owner = req[r].customer
        BY <3>1, <4>1, <4>2 DEF RoleOK, CreationOK
      <4>4. req[r].customer \in Customers
        BY <3>1, <4>2, CreatorLocks
      <4>5. CASE req[r].op = "CreateCustomer"
        <5>1. newCustomers[r][req[r].customer] # None
          BY <3>1, <4>2, <4>5 DEF RoleOK, CreationOK, Proceeds, AfterCustomerWrite
        <5> QED
          BY <2>2, <4>3, <4>4, <5>1 DEF Teardown, Commit, CommittedCustomer
      <4>6. CASE req[r].op = "CreateAddress"
        <5>1. customers[req[r].customer] # None
          BY <3>1, <4>2, <4>6 DEF RoleOK, CreationOK, Proceeds, VisibleCustomer
        <5> QED
          BY <2>2, <4>3, <4>4, <5>1, TeardownFrame DEF StructureInv
      <4> QED
        BY <4>2, <4>5, <4>6 DEF Creations
    <3> QED
      BY <3>2, <3>3
  <2> QED
    BY <2>1, <2>2, OnlyCommitsPublish DEF StructureInv
<1> QED
  BY <1>1, AddressesCorrect, PTL DEF Spec, CreatedWhole
=============================================================================
