------------------------------ MODULE SddProofs -----------------------------
(***************************************************************************)
(* Proofs, for every value of the constants, of safety properties of       *)
(* SddService.                                                             *)
(***************************************************************************)
EXTENDS SddInvariants, FiniteSetTheorems, TLAPS

-----------------------------------------------------------------------------
(* Rows and requests.                                                      *)

\* Replacing the status of a row leaves a row.
LEMMA StatusRow ==
    ASSUME NEW s \in Status
    PROVE  /\ \A row \in CustomerRow : [row EXCEPT !.status = s] \in CustomerRow
           /\ \A row \in AddressRow : [row EXCEPT !.status = s] \in AddressRow
BY DEF CustomerRow, AddressRow

\* Replacing the unique columns of a row leaves a row of the same status.
LEMMA KeyedRow ==
    ASSUME NEW row \in CustomerRow, NEW e \in Emails, NEW i \in Idents
    PROVE  /\ [row EXCEPT !.email = e, !.ident = i] \in CustomerRow
           /\ [row EXCEPT !.email = e, !.ident = i].status = row.status
BY DEF CustomerRow

\* A request in flight has the fields its operation needs.
LEMMA RequestFields ==
    ASSUME RequestInv, NEW r \in Requests, pc[r] # "idle"
    PROVE  /\ RequestOK(r)
           /\ req[r].customer \in Customers
           /\ req[r].op \in AllOperations
           /\ req[r].fresh \subseteq Addresses
BY DEF RequestInv, RequestOK, Request

-----------------------------------------------------------------------------
(* What a step leaves alone.                                               *)

SameRequest(q) ==
    /\ pc'[q] = pc[q]         /\ req'[q] = req[q]
    /\ entity'[q] = entity[q] /\ loaded'[q] = loaded[q]
    /\ todo'[q] = todo[q]     /\ code'[q] = code[q]
    /\ newCustomers'[q] = newCustomers[q]
    /\ newAddresses'[q] = newAddresses[q]
    /\ lockedCustomers'[q] = lockedCustomers[q]
    /\ indexed'[q] = indexed[q]

\* A statement of r changes nothing of another request, and no committed row.
LEMMA StatementFrame ==
    ASSUME TypeOK, NEW r \in Requests, Statement(r) \/ StatementFails(r)
    PROVE  /\ \A q \in Requests \ {r} : SameRequest(q)
           /\ UNCHANGED <<customers, addresses, revived, req>>
<1> USE DEF TypeOK, RequestTypeOK, StoreTypeOK, SameRequest, Reply, Goto, Reading, NoFailure,
            storeVars, Rollback, EndTransaction, WriteCustomer, WriteAddress
<1>1. CASE GetCustomer(r) \/ GetAddress(r) \/ FindByEmail(r)
  BY <1>1 DEF GetCustomer, GetAddress, FindByEmail
<1>2. CASE FindByIdentification(r) \/ Reload(r) \/ CountActive(r)
  BY <1>2 DEF FindByIdentification, Reload, CountActive
<1>3. CASE SelectAddresses(r) \/ ListAddresses(r) \/ LockCustomer(r)
  BY <1>3 DEF SelectAddresses, ListAddresses, LockCustomer
<1>4. CASE InsertCustomer(r) \/ UpdateCustomerRow(r)
  BY <1>4 DEF InsertCustomer, UpdateCustomerRow
<1>5. CASE EnterIndex(r)
  BY <1>5 DEF EnterIndex
<1>6. CASE DuplicateKey(r) \/ DeadlockVictim(r) \/ StatementFails(r)
  BY <1>6 DEF DuplicateKey, DeadlockVictim, StatementFails
<1>7. CASE AddAddress(r) \/ UpdateAddressRow(r) \/ CascadeDelete(r)
  BY <1>7 DEF AddAddress, UpdateAddressRow, CascadeDelete
<1> QED
  BY <1>1, <1>2, <1>3, <1>4, <1>5, <1>6, <1>7 DEF Statement

-----------------------------------------------------------------------------
(* Types.                                                                  *)

\* The two ways a statement ends keep the types of the request's variables.
LEMMA ReplyType ==
    ASSUME RequestTypeOK, NEW r \in Requests, NEW c \in Codes, Reply(r, c)
    PROVE  RequestTypeOK'
BY DEF RequestTypeOK, Reply, Goto, Points

LEMMA GotoType ==
    ASSUME RequestTypeOK, NEW r \in Requests, NEW p \in Points, Goto(r, p),
           UNCHANGED <<entity, loaded, todo, code>>
    PROVE  RequestTypeOK'
BY DEF RequestTypeOK, Goto

LEMMA EntityType ==
    ASSUME RequestTypeOK, NEW r \in Requests, NEW p \in Points, Goto(r, p),
           NEW row \in CustomerRow \cup AddressRow,
           entity' = [entity EXCEPT ![r] = row],
           UNCHANGED <<loaded, todo, code>>
    PROVE  RequestTypeOK'
BY DEF RequestTypeOK, Goto

\* A statement that writes nothing keeps the types of the store.
LEMMA ReadingType ==
    ASSUME TypeOK, Reading
    PROVE  StoreTypeOK' /\ (failures \in 0..MaxFailures)' /\ (revived \in SUBSET Addresses)'
BY DEF TypeOK, StoreTypeOK, Reading, NoFailure, storeVars

LEMMA RollbackType ==
    ASSUME StoreTypeOK, NEW r \in Requests, Rollback(r)
    PROVE  StoreTypeOK'
BY DEF StoreTypeOK, Rollback, EndTransaction, NoCustomers, NoAddresses

LEMMA WriteCustomerType ==
    ASSUME StoreTypeOK, NEW r \in Requests, NEW c \in Customers, NEW row \in CustomerRow,
           WriteCustomer(r, c, row),
           UNCHANGED <<customers, addresses, newAddresses, indexed>>
    PROVE  StoreTypeOK'
BY DEF StoreTypeOK, WriteCustomer

LEMMA WriteAddressType ==
    ASSUME StoreTypeOK, NEW r \in Requests, NEW a \in Addresses, NEW row \in AddressRow,
           WriteAddress(r, a, row),
           UNCHANGED <<customers, addresses, newCustomers, lockedCustomers, indexed>>
    PROVE  StoreTypeOK'
BY DEF StoreTypeOK, WriteAddress

\* Reads of r keep the types.
LEMMA ReadType ==
    ASSUME TypeOK, RequestInv, LocalInv, NEW r \in Requests,
           \/ GetCustomer(r) \/ GetAddress(r) \/ FindByEmail(r)
           \/ FindByIdentification(r) \/ Reload(r) \/ CountActive(r)
           \/ SelectAddresses(r) \/ ListAddresses(r)
    PROVE  TypeOK'
<1> USE DEF TypeOK
<1> DEFINE c == req[r].customer  a == req[r].address
<1>1. pc[r] # "idle" /\ Reading
  BY DEF GetCustomer, GetAddress, FindByEmail, FindByIdentification, Reload,
         CountActive, SelectAddresses, ListAddresses
<1>2. StoreTypeOK' /\ (failures \in 0..MaxFailures)' /\ (revived \in SUBSET Addresses)'
  BY <1>1, ReadingType
<1>3. RequestOK(r) /\ LocalOK(r) /\ c \in Customers
  BY <1>1, RequestFields DEF LocalInv
<1>4. CASE GetCustomer(r)
  <2>1. VisibleCustomer(c) => /\ customers[c] \in CustomerRow
                              /\ [customers[c] EXCEPT !.status = "DELETED"] \in CustomerRow
    BY <1>3, StatusRow DEF VisibleCustomer, StoreTypeOK, Status
  <2>2. "ERR-003" \in Codes
    BY DEF Codes
  <2>3. "findEmail" \in Points /\ "reload" \in Points /\ "list" \in Points
            /\ "getAddress" \in Points
    BY DEF Points
  <2>4. CASE Reply(r, "ERR-003")
    BY <1>2, <2>2, <2>4, ReplyType
  <2>5. CASE /\ VisibleCustomer(c)
             /\ Goto(r, "findEmail")
             /\ entity' = [entity EXCEPT ![r] = customers[c]]
             /\ UNCHANGED <<loaded, todo, code>>
    BY <1>2, <2>1, <2>3, <2>5, EntityType
  <2>6. CASE /\ VisibleCustomer(c)
             /\ Goto(r, "reload")
             /\ entity' = [entity EXCEPT ![r] = [customers[c] EXCEPT !.status = "DELETED"]]
             /\ UNCHANGED <<loaded, todo, code>>
    BY <1>2, <2>1, <2>3, <2>6, EntityType
  <2>7. CASE /\ \/ Goto(r, "list") \/ Goto(r, "getAddress")
             /\ UNCHANGED <<entity, loaded, todo, code>>
    BY <1>2, <2>3, <2>7, GotoType
  <2> QED
    BY <1>4, <2>4, <2>5, <2>6, <2>7 DEF GetCustomer
<1>5. CASE GetAddress(r)
  <2>1. AddressError(req[r]) \in Codes /\ (AddressError(req[r]) = "NONE" => VisibleAddress(a))
    BY DEF AddressError, Codes
  <2>2. CASE Reply(r, AddressError(req[r]))
    BY <1>2, <2>1, <2>2, ReplyType
  <2>3. CASE AddressError(req[r]) = "NONE"
    <3> DEFINE wanted == IF req[r].op = "DeleteAddress" THEN "DELETED" ELSE "ACTIVE"
    <3>1. a \in Addresses
      BY <1>3, <1>5 DEF RequestOK, OpsAt, GetAddress
    <3>2. wanted \in Status /\ addresses[a] \in AddressRow
      BY <2>1, <2>3, <3>1 DEF Status, StoreTypeOK, VisibleAddress
    <3>3. [addresses[a] EXCEPT !.status = wanted] \in AddressRow
      BY <3>2, StatusRow
    <3>4. /\ Goto(r, "reload")
          /\ entity' = [entity EXCEPT ![r] = [addresses[a] EXCEPT !.status = wanted]]
          /\ UNCHANGED <<loaded, todo, code>>
      BY <1>5, <2>3 DEF GetAddress
    <3>5. "reload" \in Points
      BY DEF Points
    <3> QED
      BY <1>2, <3>3, <3>4, <3>5, EntityType
  <2> QED
    BY <1>5, <2>2, <2>3 DEF GetAddress
<1>6. CASE FindByEmail(r)
  BY <1>2, <1>6 DEF FindByEmail, RequestTypeOK, Goto, Codes, Points
<1>7. CASE FindByIdentification(r)
  <2>1. "ERR-008" \in Codes /\ code[r] \in Codes
            /\ "insertCustomer" \in Points /\ "reload" \in Points
    BY DEF RequestTypeOK, Codes, Points
  <2>2. CASE Reply(r, code[r]) \/ Reply(r, "ERR-008")
    BY <1>2, <2>1, <2>2, ReplyType
  <2>3. CASE Goto(r, "insertCustomer") /\ UNCHANGED <<entity, loaded, todo, code>>
    BY <1>2, <2>1, <2>3, GotoType
  <2>4. CASE /\ req[r].op = "UpdateCustomer"
             /\ Goto(r, "reload")
             /\ entity' = [entity EXCEPT ![r].email = req[r].email, ![r].ident = req[r].ident]
             /\ UNCHANGED <<loaded, todo, code>>
    <3> DEFINE new == [entity[r] EXCEPT !.email = req[r].email, !.ident = req[r].ident]
    <3>1. entity[r] \in CustomerRow /\ req[r].email \in Emails /\ req[r].ident \in Idents
      BY <1>3, <1>7, <2>4 DEF LocalOK, RequestOK, FindByIdentification
    <3>2. new \in CustomerRow
      BY <3>1, KeyedRow
    <3>3. entity' = [entity EXCEPT ![r] = new]
      BY <2>4 DEF RequestTypeOK
    <3> QED
      BY <1>2, <2>1, <2>4, <3>2, <3>3, EntityType
  <2> QED
    BY <1>7, <2>2, <2>3, <2>4 DEF FindByIdentification
<1>8. CASE Reload(r)
  <2>1. req[r].op \in {"UpdateCustomer", "DeleteCustomer"} => customers[c] \in CustomerRow
    BY <1>3, <1>8 DEF LocalOK, Reload, StoreTypeOK
  <2>2. req[r].op \in {"UpdateAddress", "DeleteAddress"} => addresses[a] \in AddressRow
    BY <1>3, <1>8 DEF LocalOK, RequestOK, Reload, StoreTypeOK
  <2> QED
    BY <1>2, <1>8, <2>1, <2>2 DEF Reload, RequestTypeOK, Goto, Points
<1>9. CASE CountActive(r)
  <2>1. "ERR-005" \in Codes /\ "addAddress" \in Points
    BY DEF Codes, Points
  <2> QED
    BY <1>2, <1>9, <2>1, ReplyType, GotoType DEF CountActive
<1>10. CASE SelectAddresses(r)
  <2>1. ActiveOf(c) \subseteq Addresses
    BY DEF ActiveOf
  <2> QED
    BY <1>2, <1>10, <2>1 DEF SelectAddresses, RequestTypeOK, Goto, Points
<1>11. CASE ListAddresses(r)
  <2>1. "OK" \in Codes
    BY DEF Codes
  <2> QED
    BY <1>2, <1>11, <2>1, ReplyType DEF ListAddresses
<1> QED
  BY <1>4, <1>5, <1>6, <1>7, <1>8, <1>9, <1>10, <1>11

\* Writes of r keep the types.
LEMMA WriteType ==
    ASSUME TypeOK, RequestInv, LocalInv, WriteSetInv, NEW r \in Requests,
           \/ InsertCustomer(r) \/ UpdateCustomerRow(r) \/ EnterIndex(r)
           \/ LockCustomer(r) \/ AddAddress(r) \/ UpdateAddressRow(r)
           \/ CascadeDelete(r)
    PROVE  TypeOK'
<1> USE DEF TypeOK
<1> DEFINE c == req[r].customer  a == req[r].address
<1>1. pc[r] # "idle" /\ (failures \in 0..MaxFailures)' /\ (revived \in SUBSET Addresses)'
  BY DEF InsertCustomer, UpdateCustomerRow, EnterIndex, LockCustomer, AddAddress,
         UpdateAddressRow, CascadeDelete, NoFailure
<1>2. RequestOK(r) /\ LocalOK(r) /\ c \in Customers
  BY <1>1, RequestFields DEF LocalInv
<1>3. "OK" \in Codes /\ "ERR-003" \in Codes
  BY DEF Codes
<1>4. /\ "emailIndex" \in Points /\ "identIndex" \in Points /\ "addAddress" \in Points
      /\ "selectAddresses" \in Points /\ "list" \in Points /\ "cascade" \in Points
      /\ "count" \in Points
  BY DEF Points
<1>5. CASE InsertCustomer(r)
  <2> DEFINE row == [status |-> "ACTIVE", email |-> req[r].email, ident |-> req[r].ident]
  <2>1. row \in CustomerRow
    BY <1>2, <1>5 DEF InsertCustomer, RequestOK, OpsAt, CustomerRow, Status
  <2>2. StoreTypeOK'
    BY <1>2, <1>5, <2>1, WriteCustomerType DEF InsertCustomer
  <2> QED
    BY <1>1, <1>4, <1>5, <2>2, GotoType DEF InsertCustomer
<1>6. CASE UpdateCustomerRow(r)
  <2> DEFINE col(k) == Merged(k, customers[c], loaded[r], entity[r])
             row == [status |-> col("status"), email |-> col("email"), ident |-> col("ident")]
  <2>1. entity[r] \in CustomerRow /\ customers[c] \in CustomerRow
    BY <1>2, <1>6 DEF UpdateCustomerRow, RequestOK, OpsAt, LocalOK, StoreTypeOK
  <2>2. row \in CustomerRow
    BY <2>1 DEF Merged, CustomerRow
  <2>3. StoreTypeOK'
    BY <1>2, <1>6, <2>2, WriteCustomerType DEF UpdateCustomerRow
  <2> QED
    BY <1>1, <1>4, <1>6, <2>3, GotoType DEF UpdateCustomerRow
<1>7. CASE EnterIndex(r)
  <2>1. IndexOf(pc[r]) \in Keys
    BY DEF IndexOf, Keys
  <2>2. /\ indexed' = [indexed EXCEPT ![r] = @ \cup {IndexOf(pc[r])}]
        /\ UNCHANGED <<customers, addresses, newCustomers, newAddresses, lockedCustomers>>
    BY <1>7 DEF EnterIndex
  <2>3. StoreTypeOK'
    <3>1. indexed[r] \cup {IndexOf(pc[r])} \in SUBSET Keys
      BY <2>1 DEF StoreTypeOK
    <3> QED
      BY <2>2, <3>1 DEF StoreTypeOK
  <2>4. RequestTypeOK'
    <3>1. CASE Reply(r, "OK")
      BY <1>3, <3>1, ReplyType
    <3>2. ASSUME NEW p \in Points, Goto(r, p), UNCHANGED <<entity, loaded, todo, code>>
          PROVE  RequestTypeOK'
      BY <3>2, GotoType
    <3> QED
      BY <1>4, <1>7, <3>1, <3>2 DEF EnterIndex
  <2> QED
    BY <1>1, <2>3, <2>4
<1>8. CASE LockCustomer(r)
  <2>1. StoreTypeOK'
    <3>1. lockedCustomers[r] \cup {c} \in SUBSET Customers
      BY <1>2 DEF StoreTypeOK
    <3>2. /\ \/ lockedCustomers' = lockedCustomers
             \/ lockedCustomers' = [lockedCustomers EXCEPT ![r] = @ \cup {c}]
          /\ UNCHANGED <<customers, addresses, newCustomers, newAddresses, indexed>>
      BY <1>8 DEF LockCustomer
    <3> QED
      BY <3>1, <3>2 DEF StoreTypeOK
  <2>2. RequestTypeOK'
    BY <1>3, <1>4, <1>8, ReplyType, GotoType DEF LockCustomer
  <2> QED
    BY <1>1, <2>1, <2>2
<1>9. CASE AddAddress(r)
  <2>1. PICK b \in todo[r] :
          /\ WriteAddress(r, b, [owner |-> c, status |-> "ACTIVE"])
          /\ \/ Reply(r, "OK")
             \/ /\ todo' = [todo EXCEPT ![r] = @ \ {b}]
                /\ Goto(r, "addAddress")
                /\ UNCHANGED <<entity, loaded, code>>
    BY <1>9 DEF AddAddress
  <2>2. b \in Addresses /\ [owner |-> c, status |-> "ACTIVE"] \in AddressRow
    BY <1>2 DEF RequestTypeOK, AddressRow, Status
  <2>3. StoreTypeOK'
    BY <1>9, <2>1, <2>2, WriteAddressType DEF AddAddress
  <2>4. CASE Reply(r, "OK")
    BY <1>1, <1>3, <2>3, <2>4, ReplyType
  <2>5. CASE /\ todo' = [todo EXCEPT ![r] = @ \ {b}]
             /\ Goto(r, "addAddress")
             /\ UNCHANGED <<entity, loaded, code>>
    BY <1>1, <1>4, <2>3, <2>5 DEF RequestTypeOK, Goto
  <2> QED
    BY <2>1, <2>4, <2>5
<1>10. CASE UpdateAddressRow(r)
  <2> DEFINE status == Merged("status", addresses[a], loaded[r], entity[r])
  <2>1. a \in Addresses /\ addresses[a] \in AddressRow /\ entity[r] \in AddressRow
    BY <1>2, <1>10 DEF UpdateAddressRow, RequestOK, OpsAt, LocalOK, StoreTypeOK
  <2>2. [owner |-> addresses[a].owner, status |-> status] \in AddressRow
    BY <2>1 DEF Merged, AddressRow
  <2>3. StoreTypeOK'
    BY <1>10, <2>1, <2>2, WriteAddressType DEF UpdateAddressRow
  <2> QED
    BY <1>1, <1>3, <1>10, <2>3, ReplyType DEF UpdateAddressRow
<1>11. CASE CascadeDelete(r)
  <2>1. PICK b \in todo[r] :
          /\ WriteAddress(r, b, [addresses[b] EXCEPT !.status = "DELETED"])
          /\ todo' = [todo EXCEPT ![r] = @ \ {b}]
          /\ \/ Goto(r, "list")
             \/ Goto(r, "cascade")
    BY <1>11 DEF CascadeDelete
  <2>2. b \in Addresses /\ addresses[b] \in AddressRow /\ "DELETED" \in Status
    BY <1>2, <1>11 DEF CascadeDelete, LocalOK, RequestTypeOK, StoreTypeOK, Status
  <2>3. [addresses[b] EXCEPT !.status = "DELETED"] \in AddressRow
    BY <2>2, StatusRow
  <2>4. StoreTypeOK'
    BY <1>11, <2>1, <2>2, <2>3, WriteAddressType DEF CascadeDelete
  <2>5. RequestTypeOK'
    BY <1>4, <1>11, <2>1 DEF CascadeDelete, RequestTypeOK, Goto
  <2> QED
    BY <1>1, <2>4, <2>5
<1> QED
  BY <1>5, <1>6, <1>7, <1>8, <1>9, <1>10, <1>11

\* So do the steps that roll back.
LEMMA AbortType ==
    ASSUME TypeOK, NEW r \in Requests,
           DuplicateKey(r) \/ DeadlockVictim(r) \/ StatementFails(r)
    PROVE  TypeOK'
<1> USE DEF TypeOK
<1>1. StoreTypeOK'
  BY RollbackType DEF DuplicateKey, DeadlockVictim, StatementFails
<1>2. ConflictCode(pc[r]) \in Codes /\ "ERR-007" \in Codes
  BY DEF ConflictCode, Codes
<1>3. RequestTypeOK'
  BY <1>2, ReplyType DEF DuplicateKey, DeadlockVictim, StatementFails
<1>4. (failures \in 0..MaxFailures)' /\ (revived \in SUBSET Addresses)'
  BY BoundsAssumption DEF DuplicateKey, DeadlockVictim, StatementFails, NoFailure
<1> QED
  BY <1>1, <1>3, <1>4

\* And the ends of transactions.
LEMMA TeardownType ==
    ASSUME TypeOK, NEW r \in Requests, Teardown(r) \/ TeardownFails(r)
    PROVE  TypeOK'
<1> USE DEF TypeOK
<1>1. RequestTypeOK'
  BY DEF Teardown, TeardownFails, Finish, RequestTypeOK, Points, Codes
<1>2. (failures \in 0..MaxFailures)' /\ (revived \in SUBSET Addresses)'
  BY BoundsAssumption DEF Teardown, TeardownFails
<1>3. CASE TeardownFails(r)
  BY <1>1, <1>2, <1>3, RollbackType DEF TeardownFails
<1>4. CASE Teardown(r)
  <2>1. (customers \in [Customers -> CustomerRow \cup {None}])'
    BY <1>4 DEF Teardown, Commit, CommittedCustomer, StoreTypeOK
  <2>2. (addresses \in [Addresses -> AddressRow \cup {None}])'
    BY <1>4 DEF Teardown, Commit, CommittedAddress, StoreTypeOK
  <2> QED
    BY <1>1, <1>2, <1>4, <2>1, <2>2
    DEF Teardown, Commit, EndTransaction, StoreTypeOK, NoCustomers, NoAddresses
<1> QED
  BY <1>3, <1>4

\* A new request has the types of its variables.
LEMMA ReceiveType ==
    ASSUME TypeOK, NEW r \in Requests, Receive(r)
    PROVE  /\ TypeOK'
           /\ pc'[r] # "idle" /\ RequestOK(r)' /\ req'[r] \in Incoming
<1>1. PICK q \in Incoming, entry \in Points, error \in {"NONE", "VAL", "ERR-005"} :
          /\ entry \in {"respond", Entry(q)}
          /\ req' = [req EXCEPT ![r] = q]
          /\ pc' = [pc EXCEPT ![r] = entry]
          /\ code' = [code EXCEPT ![r] = error]
          /\ todo' = [todo EXCEPT ![r] = IF entry # "respond" THEN q.fresh ELSE {}]
  <2>1. PICK q \in Incoming, parsed \in BOOLEAN :
          LET entry == IF parsed THEN Entry(q) ELSE "respond"
              error == IF parsed THEN "ERR-005" ELSE "VAL"
              works == entry # "respond"
          IN
          /\ req' = [req EXCEPT ![r] = q]
          /\ pc' = [pc EXCEPT ![r] = entry]
          /\ code' = [code EXCEPT ![r] = IF works THEN "NONE" ELSE error]
          /\ todo' = [todo EXCEPT ![r] = IF works THEN q.fresh ELSE {}]
    BY DEF Receive
  <2> DEFINE entry == IF parsed THEN Entry(q) ELSE "respond"
             error == IF entry # "respond" THEN "NONE" ELSE IF parsed THEN "ERR-005" ELSE "VAL"
  <2>2. error \in {"NONE", "VAL", "ERR-005"} /\ entry \in {"respond", Entry(q)} /\ entry \in Points
    BY DEF Entry, Points
  <2>3. /\ req' = [req EXCEPT ![r] = q]
        /\ pc' = [pc EXCEPT ![r] = entry]
        /\ code' = [code EXCEPT ![r] = error]
        /\ todo' = [todo EXCEPT ![r] = IF entry # "respond" THEN q.fresh ELSE {}]
    BY <2>1
  <2> HIDE DEF entry, error
  <2> QED
    BY <2>2, <2>3
<1>2. /\ q \in Request
      /\ q.op \in {"CreateCustomer", "UpdateCustomer"} => q.email \in Emails /\ q.ident \in Idents
      /\ q.op \in {"UpdateAddress", "DeleteAddress"} => q.address \in Addresses
      /\ q.op \notin Creations => q.fresh = {}
      /\ q.op = "CreateAddress" => \E a \in Addresses : q.fresh = {a}
  <2> USE DEF Request, AllOperations, Creations
  <2>1. CASE q \in CreateCustomerRequests
    BY <2>1 DEF CreateCustomerRequests, FreshCustomers, FreshAddresses
  <2>2. CASE q \in UpdateCustomerRequests
    BY <2>2 DEF UpdateCustomerRequests
  <2>3. CASE q \in CreateAddressRequests
    BY <2>3 DEF CreateAddressRequests, FreshAddresses
  <2>4. CASE q \in UpdateAddressRequests
    BY <2>4 DEF UpdateAddressRequests
  <2>5. CASE q \in DeleteAddressRequests
    BY <2>5 DEF DeleteAddressRequests
  <2>6. CASE q \in CustomerOnlyRequests
    BY <2>6 DEF CustomerOnlyRequests
  <2> QED
    BY <2>1, <2>2, <2>3, <2>4, <2>5, <2>6 DEF Incoming
<1>3. entry \in {"respond", "findEmail", "lockCustomer", "getCustomer"} /\ q.op \in OpsAt(entry)
  <2>1. q.op \in AllOperations
    BY <1>2 DEF Request
  <2> QED
    BY <1>1, <2>1 DEF Entry, OpsAt, AllOperations, Creations
<1>4. error \in Codes
  BY <1>1 DEF Codes
<1>5. TypeOK'
  <2>1. q.fresh \in SUBSET Addresses
    BY <1>2 DEF Request
  <2>2. RequestTypeOK'
    BY <1>1, <1>2, <1>3, <1>4, <2>1 DEF TypeOK, RequestTypeOK, Receive, Points
  <2> QED
    BY <2>2, ReadingType DEF Receive, TypeOK
<1>6. req'[r] = q /\ pc'[r] = entry
  BY <1>1 DEF TypeOK, RequestTypeOK
<1> QED
  BY <1>2, <1>3, <1>5, <1>6 DEF RequestOK

-----------------------------------------------------------------------------
(* Where a request goes.                                                   *)

\* A statement takes its request to a point the operation passes through.
LEMMA RequestStep ==
    ASSUME TypeOK, RequestInv, NEW r \in Requests, Statement(r) \/ StatementFails(r)
    PROVE  pc'[r] # "idle" /\ RequestOK(r)'
<1>1. req' = req
  BY StatementFrame
<1>2. pc[r] # "idle"
  BY DEF Statement, StatementFails, DeadlockVictim, Deadlocked, Waits, RowWait, KeyWait,
         GetCustomer, GetAddress, FindByEmail, FindByIdentification, InsertCustomer, Reload,
         UpdateCustomerRow, EnterIndex, DuplicateKey, LockCustomer, CountActive, AddAddress,
         UpdateAddressRow, SelectAddresses, CascadeDelete, ListAddresses
<1>3. RequestOK(r) /\ req[r].op \in AllOperations
  BY <1>2, RequestFields
<1>4. ASSUME NEW p, Goto(r, p)
      PROVE  pc'[r] = p
  BY <1>4 DEF Goto, TypeOK, RequestTypeOK
<1>5. ASSUME NEW c, Reply(r, c)
      PROVE  pc'[r] = "respond"
  BY <1>5, <1>4 DEF Reply
<1>6. req[r].op \in OpsAt(pc[r])
  BY <1>3 DEF RequestOK
<1>7. pc'[r] # "idle" /\ req[r].op \in OpsAt(pc'[r])
  <2>1. CASE \E c : Reply(r, c)
    BY <1>3, <1>5, <2>1 DEF OpsAt
  <2>2. CASE GetCustomer(r)
    BY <1>3, <1>4, <1>6, <2>1, <2>2 DEF GetCustomer, OpsAt, AllOperations
  <2>3. CASE GetAddress(r) \/ FindByEmail(r) \/ FindByIdentification(r) \/ InsertCustomer(r)
    BY <1>3, <1>4, <1>6, <2>1, <2>3
    DEF GetAddress, FindByEmail, FindByIdentification, InsertCustomer, OpsAt
  <2>4. CASE Reload(r) \/ UpdateCustomerRow(r) \/ LockCustomer(r) \/ CountActive(r)
    BY <1>3, <1>4, <1>6, <2>1, <2>4
    DEF Reload, UpdateCustomerRow, LockCustomer, CountActive, OpsAt, Creations
  <2>5. CASE EnterIndex(r)
    BY <1>3, <1>4, <1>6, <2>1, <2>5 DEF EnterIndex, OpsAt, Creations
  <2>6. CASE AddAddress(r) \/ SelectAddresses(r) \/ CascadeDelete(r)
    BY <1>3, <1>4, <1>6, <2>1, <2>6 DEF AddAddress, SelectAddresses, CascadeDelete, OpsAt
  <2>7. CASE DuplicateKey(r) \/ UpdateAddressRow(r) \/ ListAddresses(r) \/ DeadlockVictim(r)
               \/ StatementFails(r)
    BY <2>1, <2>7 DEF DuplicateKey, UpdateAddressRow, ListAddresses, DeadlockVictim,
                      StatementFails
  <2> QED
    BY <2>2, <2>3, <2>4, <2>5, <2>6, <2>7 DEF Statement
<1> QED
  BY <1>1, <1>3, <1>7 DEF RequestOK

-----------------------------------------------------------------------------
(* The structural invariant, one request at a time.                        *)

OwnOK(r) == LocalOK(r) /\ FreshOK(r) /\ WriteSetOK(r)

\* What holds of a request that does nothing keeps holding.
LEMMA Untouched ==
    ASSUME NEW q \in Requests, OwnOK(q), SameRequest(q), UNCHANGED <<customers, addresses>>
    PROVE  OwnOK(q)'
BY DEF OwnOK, SameRequest, LocalOK, FreshOK, WriteSetOK

\* An answered request keeps no local variables.
LEMMA ReplyLocal ==
    ASSUME RequestTypeOK, NEW r \in Requests, NEW c, Reply(r, c)
    PROVE  /\ pc'[r] = "respond" /\ code'[r] = c /\ todo'[r] = {} /\ req' = req
           /\ LocalOK(r)'
BY DEF RequestTypeOK, Reply, Goto, LocalOK

\* A statement leaves its request's local variables as the next one expects them.
LEMMA LocalStep ==
    ASSUME TypeOK, RequestInv, LocalInv, NEW r \in Requests, Statement(r) \/ StatementFails(r)
    PROVE  LocalOK(r)'
<1> DEFINE c == req[r].customer  a == req[r].address
<1>1. UNCHANGED <<customers, addresses, req>>
  BY StatementFrame
<1>2. LocalOK(r)
  BY DEF LocalInv
<1>3. ASSUME NEW p, Goto(r, p)
      PROVE  pc'[r] = p
  BY <1>3 DEF Goto, TypeOK, RequestTypeOK
<1>4. CASE \E d : Reply(r, d)
  BY <1>4, ReplyLocal DEF TypeOK
<1>5. CASE GetCustomer(r)
  <2>1. c \in Customers
    BY <1>5, RequestFields DEF GetCustomer
  <2>2. VisibleCustomer(c) => /\ customers[c] \in CustomerRow
                              /\ [customers[c] EXCEPT !.status = "DELETED"] \in CustomerRow
                              /\ [customers[c] EXCEPT !.status = "DELETED"].status = "DELETED"
    BY <2>1, StatusRow DEF VisibleCustomer, TypeOK, StoreTypeOK, Status, CustomerRow
  <2>3. CASE /\ VisibleCustomer(c) /\ req[r].op = "UpdateCustomer"
             /\ Goto(r, "findEmail")
             /\ entity' = [entity EXCEPT ![r] = customers[c]]
             /\ UNCHANGED <<loaded, todo, code>>
    BY <1>1, <1>2, <1>3, <2>2, <2>3 DEF LocalOK, TypeOK, RequestTypeOK, VisibleCustomer
  <2>4. CASE /\ VisibleCustomer(c) /\ req[r].op = "DeleteCustomer"
             /\ Goto(r, "reload")
             /\ entity' = [entity EXCEPT ![r] = [customers[c] EXCEPT !.status = "DELETED"]]
             /\ UNCHANGED <<loaded, todo, code>>
    BY <1>1, <1>2, <1>3, <2>2, <2>4 DEF LocalOK, TypeOK, RequestTypeOK, VisibleCustomer
  <2>5. CASE /\ \/ Goto(r, "list") \/ Goto(r, "getAddress")
             /\ UNCHANGED <<entity, loaded, todo, code>>
    BY <1>1, <1>2, <1>3, <2>5 DEF LocalOK
  <2> QED
    BY <1>4, <1>5, <2>3, <2>4, <2>5 DEF GetCustomer
<1>6. CASE GetAddress(r)
  <2> DEFINE wanted == IF req[r].op = "DeleteAddress" THEN "DELETED" ELSE "ACTIVE"
  <2>1. RequestOK(r) /\ req[r].op \in {"UpdateAddress", "DeleteAddress"} /\ a \in Addresses
    BY <1>6, RequestFields DEF GetAddress, RequestOK, OpsAt
  <2>2. CASE AddressError(req[r]) = "NONE"
    <3>1. VisibleAddress(a)
      BY <2>2 DEF AddressError
    <3>2. wanted \in Status /\ addresses[a] \in AddressRow /\ addresses[a] # None
      BY <2>1, <3>1 DEF VisibleAddress, TypeOK, StoreTypeOK, Status
    <3>3. /\ [addresses[a] EXCEPT !.status = wanted] \in AddressRow
          /\ [addresses[a] EXCEPT !.status = wanted].status = wanted
      BY <3>2, StatusRow DEF AddressRow
    <3>4. /\ Goto(r, "reload")
          /\ entity' = [entity EXCEPT ![r] = [addresses[a] EXCEPT !.status = wanted]]
          /\ UNCHANGED <<loaded, todo, code>>
      BY <1>6, <2>2 DEF GetAddress
    <3>5. /\ pc'[r] = "reload" /\ todo'[r] = todo[r]
          /\ entity'[r] = [addresses[a] EXCEPT !.status = wanted]
      BY <1>3, <3>4 DEF TypeOK, RequestTypeOK
    <3> QED
      BY <1>1, <1>2, <2>1, <3>2, <3>3, <3>5 DEF LocalOK
  <2> QED
    BY <1>4, <1>6, <2>2 DEF GetAddress
<1>7. CASE FindByEmail(r)
  BY <1>1, <1>2, <1>3, <1>7 DEF FindByEmail, LocalOK, TypeOK, RequestTypeOK
<1>8. CASE FindByIdentification(r)
  <2>1. CASE Goto(r, "insertCustomer") /\ UNCHANGED <<entity, loaded, todo, code>>
    BY <1>1, <1>2, <1>3, <2>1 DEF LocalOK
  <2>2. CASE /\ req[r].op = "UpdateCustomer"
             /\ Goto(r, "reload")
             /\ entity' = [entity EXCEPT ![r].email = req[r].email, ![r].ident = req[r].ident]
             /\ UNCHANGED <<loaded, todo, code>>
    <3> DEFINE new == [entity[r] EXCEPT !.email = req[r].email, !.ident = req[r].ident]
    <3>1. RequestOK(r) /\ entity[r] \in CustomerRow /\ customers[c] # None
      BY <1>2, <1>8, <2>2, RequestFields DEF LocalOK, FindByIdentification
    <3>2. new \in CustomerRow
      BY <2>2, <3>1, KeyedRow DEF RequestOK
    <3>3. entity'[r] = new /\ pc'[r] = "reload" /\ todo'[r] = todo[r]
      BY <1>3, <2>2 DEF TypeOK, RequestTypeOK
    <3> QED
      BY <1>1, <1>2, <2>2, <3>1, <3>2, <3>3 DEF LocalOK
  <2> QED
    BY <1>4, <1>8, <2>1, <2>2 DEF FindByIdentification
<1>9. CASE Reload(r)
  <2>1. RequestOK(r) /\ c \in Customers
    BY <1>9, RequestFields DEF Reload
  <2>2. CASE /\ req[r].op \in {"UpdateCustomer", "DeleteCustomer"}
             /\ loaded' = [loaded EXCEPT ![r] = customers[c]]
             /\ Goto(r, "writeCustomer")
             /\ UNCHANGED <<entity, todo, code>>
    <3>1. customers[c] \in CustomerRow
      BY <1>2, <1>9, <2>1, <2>2 DEF LocalOK, Reload, TypeOK, StoreTypeOK
    <3> QED
      BY <1>1, <1>2, <1>3, <1>9, <2>2, <3>1 DEF LocalOK, Reload, TypeOK, RequestTypeOK
  <2>3. CASE /\ req[r].op \in {"UpdateAddress", "DeleteAddress"}
             /\ loaded' = [loaded EXCEPT ![r] = addresses[a]]
             /\ Goto(r, "writeAddress")
             /\ UNCHANGED <<entity, todo, code>>
    <3>1. addresses[a] \in AddressRow
      BY <1>2, <1>9, <2>1, <2>3 DEF LocalOK, Reload, RequestOK, TypeOK, StoreTypeOK
    <3> QED
      BY <1>1, <1>2, <1>3, <1>9, <2>3, <3>1 DEF LocalOK, Reload, TypeOK, RequestTypeOK
  <2> QED
    BY <1>9, <2>2, <2>3 DEF Reload
<1>10. CASE InsertCustomer(r) \/ UpdateCustomerRow(r)
  BY <1>1, <1>2, <1>3, <1>10 DEF InsertCustomer, UpdateCustomerRow, LocalOK
<1>11. CASE EnterIndex(r)
  <2>1. CASE /\ UNCHANGED <<entity, loaded, todo, code>>
             /\ pc'[r] \in {"identIndex", "addAddress", "selectAddresses", "list"}
    BY <1>1, <1>2, <2>1 DEF LocalOK
  <2> QED
    BY <1>3, <1>4, <1>11, <2>1 DEF EnterIndex
<1>12. CASE LockCustomer(r) \/ CountActive(r)
  BY <1>1, <1>2, <1>3, <1>4, <1>12 DEF LockCustomer, CountActive, LocalOK
<1>13. CASE AddAddress(r)
  <2>1. CASE \E b \in todo[r] : todo' = [todo EXCEPT ![r] = @ \ {b}] /\ Goto(r, "addAddress")
    <3>1. todo'[r] \subseteq todo[r] /\ pc'[r] = "addAddress"
      BY <1>3, <2>1 DEF TypeOK, RequestTypeOK
    <3> QED
      BY <1>1, <1>2, <3>1 DEF LocalOK
  <2> QED
    BY <1>4, <1>13, <2>1 DEF AddAddress
<1>14. CASE SelectAddresses(r)
  <2>1. req[r].op = "DeleteCustomer"
    BY <1>14, RequestFields DEF SelectAddresses, RequestOK, OpsAt
  <2>2. todo'[r] = ActiveOf(c) /\ pc'[r] \in {"list", "cascade"}
    BY <1>3, <1>14 DEF SelectAddresses, TypeOK, RequestTypeOK
  <2>3. \A b \in ActiveOf(c) : addresses[b] # None
    BY DEF ActiveOf, VisibleAddress
  <2> QED
    BY <1>1, <2>1, <2>2, <2>3 DEF LocalOK, Creations
<1>15. CASE CascadeDelete(r)
  <2>1. req[r].op = "DeleteCustomer"
    BY <1>15, RequestFields DEF CascadeDelete, RequestOK, OpsAt
  <2>2. todo'[r] \subseteq todo[r] /\ pc[r] = "cascade" /\ pc'[r] \in {"list", "cascade"}
    BY <1>3, <1>15 DEF CascadeDelete, TypeOK, RequestTypeOK
  <2> QED
    BY <1>1, <1>2, <2>1, <2>2 DEF LocalOK, Creations
<1>16. CASE DuplicateKey(r) \/ UpdateAddressRow(r) \/ ListAddresses(r) \/ DeadlockVictim(r)
              \/ StatementFails(r)
  BY <1>4, <1>16 DEF DuplicateKey, UpdateAddressRow, ListAddresses, DeadlockVictim, StatementFails
<1> QED
  BY <1>5, <1>6, <1>7, <1>8, <1>9, <1>10, <1>11, <1>12, <1>13, <1>14, <1>15, <1>16 DEF Statement

\* A statement adds to its transaction only what the operation is about.
LEMMA WriteSetStep ==
    ASSUME TypeOK, RequestInv, LocalInv, FreshInv, WriteSetInv,
           NEW r \in Requests, Statement(r) \/ StatementFails(r)
    PROVE  WriteSetOK(r)'
<1> DEFINE c == req[r].customer  a == req[r].address
<1>1. UNCHANGED <<customers, addresses, req>>
  BY StatementFrame
<1>2. WriteSetOK(r) /\ LocalOK(r) /\ FreshOK(r)
  BY DEF WriteSetInv, LocalInv, FreshInv
<1>3. ASSUME NEW p, Goto(r, p)
      PROVE  pc'[r] = p
  BY <1>3 DEF Goto, TypeOK, RequestTypeOK
<1>4. CASE /\ GetCustomer(r) \/ GetAddress(r) \/ FindByEmail(r) \/ FindByIdentification(r)
              \/ Reload(r)
  <2>1. pc[r] \in {"getCustomer", "getAddress", "findEmail", "findIdent", "reload"} /\ Reading
    BY <1>4 DEF GetCustomer, GetAddress, FindByEmail, FindByIdentification, Reload
  <2>2. pc'[r] \notin {"emailIndex", "identIndex"}
    BY <1>3, <1>4, ReplyLocal
    DEF GetCustomer, GetAddress, FindByEmail, FindByIdentification, Reload, TypeOK
  <2>3. /\ \A d \in Customers : newCustomers[r][d] = None
        /\ lockedCustomers[r] = {}
        /\ \A b \in Addresses : newAddresses[r][b] = None
    BY <1>2, <2>1 DEF WriteSetOK, AfterCustomerWrite
  <2> QED
    BY <2>1, <2>2, <2>3 DEF WriteSetOK, Reading, storeVars
<1>5. CASE CountActive(r)
  <2>1. pc[r] = "count" /\ Reading /\ pc'[r] \in {"addAddress", "respond"}
    BY <1>3, <1>5, ReplyLocal DEF CountActive, TypeOK
  <2>2. /\ \A d \in Customers : newCustomers[r][d] = None
        /\ \A b \in Addresses : newAddresses[r][b] = None
    BY <1>2, <2>1 DEF WriteSetOK, AfterCustomerWrite
  <2> QED
    BY <1>1, <1>2, <2>1, <2>2 DEF WriteSetOK, Reading, storeVars, AfterCustomerWrite
<1>6. CASE ListAddresses(r) \/ SelectAddresses(r)
  <2>1. /\ pc[r] \in {"list", "selectAddresses"} /\ Reading
        /\ pc'[r] \in {"list", "cascade", "respond"}
        /\ pc'[r] = "respond" => code'[r] = "OK" /\ todo'[r] = {}
        /\ pc[r] = "selectAddresses" => \A b \in Addresses : newAddresses[r][b] = None
        /\ pc[r] = "list" => todo'[r] = {}
    BY <1>2, <1>3, <1>6, ReplyLocal DEF ListAddresses, SelectAddresses, TypeOK, WriteSetOK
  <2> QED
    BY <1>1, <1>2, <2>1 DEF WriteSetOK, Reading, storeVars, AfterCustomerWrite
<1>7. CASE InsertCustomer(r) \/ UpdateCustomerRow(r)
  <2>1. pc[r] \in {"insertCustomer", "writeCustomer"} /\ pc'[r] = "emailIndex"
    BY <1>3, <1>7 DEF InsertCustomer, UpdateCustomerRow
  <2>2. c \in Customers /\ req[r].op \in WritingOps /\ RequestOK(r)
    BY <2>1, RequestFields DEF RequestOK, OpsAt, WritingOps
  <2>3. PICK row \in CustomerRow : WriteCustomer(r, c, row) /\ UNCHANGED newAddresses
    <3>1. CASE InsertCustomer(r)
      <4>1. [status |-> "ACTIVE", email |-> req[r].email, ident |-> req[r].ident] \in CustomerRow
        BY <2>2, <3>1 DEF InsertCustomer, RequestOK, OpsAt, CustomerRow, Status
      <4> QED
        BY <3>1, <4>1 DEF InsertCustomer
    <3>2. CASE UpdateCustomerRow(r)
      <4> DEFINE col(k) == Merged(k, customers[c], loaded[r], entity[r])
                 new == [status |-> col("status"), email |-> col("email"), ident |-> col("ident")]
      <4>1. entity[r] \in CustomerRow /\ customers[c] \in CustomerRow
        BY <1>2, <2>2, <3>2 DEF UpdateCustomerRow, RequestOK, OpsAt, LocalOK, TypeOK, StoreTypeOK
      <4>2. new \in CustomerRow
        BY <4>1 DEF Merged, CustomerRow
      <4> QED
        BY <3>2, <4>2 DEF UpdateCustomerRow
    <3> QED
      BY <1>7, <3>1, <3>2
  <2>4. row # None
    BY RowsAssumption
  <2>5. /\ newCustomers'[r] = [newCustomers[r] EXCEPT ![c] = row]
        /\ lockedCustomers'[r] = lockedCustomers[r] \cup {c}
        /\ newAddresses'[r] = newAddresses[r]
    BY <2>3 DEF WriteCustomer, TypeOK, StoreTypeOK
  <2>6. newCustomers[r] \in [Customers -> CustomerRow \cup {None}]
    BY DEF TypeOK, StoreTypeOK
  <2>7. req[r].op # "CreateCustomer" => customers[c] # None
    BY <1>2, <2>1, <2>2 DEF LocalOK, RequestOK, OpsAt
  <2> QED
    BY <1>1, <1>2, <2>1, <2>2, <2>4, <2>5, <2>6, <2>7 DEF WriteSetOK, AfterCustomerWrite
<1>8. CASE EnterIndex(r)
  <2>1. /\ pc[r] \in {"emailIndex", "identIndex"}
        /\ UNCHANGED <<newCustomers, newAddresses, lockedCustomers>>
        /\ pc'[r] \in {"identIndex", "addAddress", "selectAddresses", "list", "respond"}
        /\ pc'[r] = "respond" => code'[r] = "OK"
    BY <1>3, <1>8, ReplyLocal DEF EnterIndex, TypeOK
  <2>2. \A b \in Addresses : newAddresses[r][b] = None
    BY <1>2, <2>1 DEF WriteSetOK
  <2> QED
    BY <1>1, <1>2, <2>1, <2>2 DEF WriteSetOK, AfterCustomerWrite
<1>9. CASE LockCustomer(r)
  <2>1. /\ pc[r] = "lockCustomer" /\ UNCHANGED <<newCustomers, newAddresses>>
        /\ \/ lockedCustomers'[r] = lockedCustomers[r] /\ pc'[r] = "respond"
           \/ /\ lockedCustomers'[r] = lockedCustomers[r] \cup {c} /\ pc'[r] = "count"
              /\ customers[c] # None
    BY <1>3, <1>9, ReplyLocal DEF LockCustomer, TypeOK, StoreTypeOK, VisibleCustomer
  <2>2. req[r].op = "CreateAddress"
    BY <2>1, RequestFields DEF RequestOK, OpsAt
  <2>3. /\ \A d \in Customers : newCustomers[r][d] = None
        /\ lockedCustomers[r] = {}
        /\ \A b \in Addresses : newAddresses[r][b] = None
    BY <1>2, <2>1 DEF WriteSetOK, AfterCustomerWrite
  <2> QED
    BY <1>1, <2>1, <2>2, <2>3 DEF WriteSetOK, AfterCustomerWrite
<1>10. CASE AddAddress(r) \/ CascadeDelete(r)
  <2> DEFINE Writes(b) ==
               /\ \E row : WriteAddress(r, b, row)
               /\ b \notin todo'[r] /\ todo'[r] \subseteq todo[r]
               /\ pc'[r] \in {"addAddress", "cascade", "list", "respond"}
               /\ pc'[r] = "respond" => code'[r] = "OK"
               /\ UNCHANGED <<newCustomers, lockedCustomers>>
  <2>a. ASSUME AddAddress(r) PROVE \E b \in todo[r] : Writes(b)
    BY <1>3, <2>a, ReplyLocal DEF AddAddress, TypeOK, RequestTypeOK
  <2>b. ASSUME CascadeDelete(r) PROVE \E b \in todo[r] : Writes(b)
    BY <1>3, <2>b, ReplyLocal DEF CascadeDelete, TypeOK, RequestTypeOK
  <2>1. PICK b \in todo[r] : Writes(b)
    BY <1>10, <2>a, <2>b
  <2>2. pc[r] \in {"addAddress", "cascade"}
    BY <1>10 DEF AddAddress, CascadeDelete
  <2>3. \A d \in Addresses : newAddresses'[r][d] # None => d = b \/ newAddresses[r][d] # None
    BY <2>1 DEF WriteAddress, TypeOK, StoreTypeOK
  <2>4. IF req[r].op \in Creations THEN b \in req[r].fresh ELSE addresses[b] # None
    BY <1>2, <2>2, RequestFields DEF LocalOK, RequestOK, OpsAt, Creations
  <2> QED
    BY <1>1, <1>2, <2>1, <2>2, <2>3, <2>4 DEF WriteSetOK, AfterCustomerWrite
<1>11. CASE UpdateAddressRow(r)
  <2>1. /\ pc[r] = "writeAddress" /\ pc'[r] = "respond" /\ code'[r] = "OK" /\ todo'[r] = {}
        /\ UNCHANGED <<newCustomers, lockedCustomers>>
    BY <1>11, ReplyLocal DEF UpdateAddressRow, TypeOK
  <2>2. RequestOK(r) /\ req[r].op \in {"UpdateAddress", "DeleteAddress"} /\ addresses[a] # None
    BY <1>2, <2>1, RequestFields DEF LocalOK, RequestOK, OpsAt
  <2>3. \A d \in Addresses : newAddresses'[r][d] # None => d = a \/ newAddresses[r][d] # None
    BY <1>11 DEF UpdateAddressRow, WriteAddress, TypeOK, StoreTypeOK
  <2>4. /\ \A d \in Customers : newCustomers[r][d] = None
        /\ lockedCustomers[r] = {}
        /\ \A d \in Addresses : newAddresses[r][d] = None
    BY <1>2, <2>1 DEF WriteSetOK, AfterCustomerWrite
  <2> QED
    BY <1>1, <2>1, <2>2, <2>3, <2>4 DEF WriteSetOK, Creations
<1>12. CASE DuplicateKey(r) \/ DeadlockVictim(r) \/ StatementFails(r)
  <2>1. pc'[r] = "respond"
    BY <1>12, ReplyLocal DEF DuplicateKey, DeadlockVictim, StatementFails, TypeOK
  <2>2. newCustomers'[r] = NoCustomers /\ newAddresses'[r] = NoAddresses /\ lockedCustomers'[r] = {}
    BY <1>12 DEF DuplicateKey, DeadlockVictim, StatementFails, Rollback, EndTransaction,
                 TypeOK, StoreTypeOK
  <2> QED
    BY <2>1, <2>2 DEF WriteSetOK, NoCustomers, NoAddresses
<1> QED
  BY <1>4, <1>5, <1>6, <1>7, <1>8, <1>9, <1>10, <1>11, <1>12 DEF Statement

\* A statement writes and locks only rows no other transaction has.
LEMMA DisjointStep ==
    ASSUME TypeOK, RequestInv, LocalInv, FreshInv, WriteSetInv,
           NEW r \in Requests, Statement(r) \/ StatementFails(r),
           NEW q \in Requests \ {r}, Disjoint(r, q)
    PROVE  Disjoint(r, q)' /\ Disjoint(q, r)'
<1> DEFINE c == req[r].customer
<1>1. SameRequest(q)
  BY StatementFrame
<1>2. \A d \in lockedCustomers'[r] : d \in lockedCustomers[r] \/ d \notin lockedCustomers[q]
  <2>1. CASE InsertCustomer(r)
    <3>1. lockedCustomers'[r] = lockedCustomers[r] \cup {c}
      BY <2>1 DEF InsertCustomer, WriteCustomer, TypeOK, StoreTypeOK
    <3>2. req[r].op = "CreateCustomer"
      BY <2>1, RequestFields DEF InsertCustomer, RequestOK, OpsAt
    <3>3. c \notin lockedCustomers[q]
      BY <3>2 DEF FreshInv, FreshOK, Apart, WriteSetInv, WriteSetOK
    <3> QED
      BY <3>1, <3>3
  <2>2. CASE UpdateCustomerRow(r) \/ LockCustomer(r)
    BY <2>2 DEF UpdateCustomerRow, LockCustomer, WriteCustomer, CustomerLockFree, TypeOK,
                StoreTypeOK
  <2>3. CASE lockedCustomers'[r] \subseteq lockedCustomers[r]
    BY <2>3
  <2>4. CASE DuplicateKey(r) \/ DeadlockVictim(r) \/ StatementFails(r)
    BY <2>4 DEF DuplicateKey, DeadlockVictim, StatementFails, Rollback, EndTransaction, TypeOK,
                StoreTypeOK
  <2> QED
    BY <2>1, <2>2, <2>3, <2>4
    DEF Statement, GetCustomer, GetAddress, FindByEmail, FindByIdentification, Reload,
        EnterIndex, CountActive, AddAddress, UpdateAddressRow, SelectAddresses, CascadeDelete,
        ListAddresses, Reading, storeVars
<1>3. \A b \in Addresses : newAddresses'[r][b] = None \/ newAddresses'[r][b] = newAddresses[r][b]
                              \/ newAddresses[q][b] = None
  <2>1. CASE AddAddress(r)
    <3>1. PICK b \in todo[r] : \E row : WriteAddress(r, b, row)
      BY <2>1 DEF AddAddress
    <3>2. b \in req[r].fresh
      BY <2>1, RequestFields DEF AddAddress, RequestOK, OpsAt, LocalInv, LocalOK
    <3>3. b \in Addresses /\ newAddresses[q][b] = None
      BY <3>1, <3>2 DEF FreshInv, FreshOK, Apart, WriteSetInv, WriteSetOK, TypeOK, RequestTypeOK
    <3> QED
      BY <3>1, <3>3 DEF WriteAddress, TypeOK, StoreTypeOK
  <2>2. CASE UpdateAddressRow(r) \/ CascadeDelete(r)
    BY <2>2 DEF UpdateAddressRow, CascadeDelete, WriteAddress, AddressLockFree, TypeOK,
                StoreTypeOK
  <2>3. CASE newAddresses'[r] = newAddresses[r]
    BY <2>3
  <2>4. CASE DuplicateKey(r) \/ DeadlockVictim(r) \/ StatementFails(r)
    BY <2>4 DEF DuplicateKey, DeadlockVictim, StatementFails, Rollback, EndTransaction, TypeOK,
                StoreTypeOK, NoAddresses
  <2> QED
    BY <2>1, <2>2, <2>3, <2>4
    DEF Statement, GetCustomer, GetAddress, FindByEmail, FindByIdentification, Reload,
        InsertCustomer, UpdateCustomerRow, LockCustomer,
        EnterIndex, CountActive, SelectAddresses, ListAddresses, Reading, storeVars
<1> QED
  BY <1>1, <1>2, <1>3 DEF Disjoint, SameRequest

\* The end of a request's transaction publishes its rows and nobody else's.
LEMMA TeardownFrame ==
    ASSUME TypeOK, NEW r \in Requests, Teardown(r) \/ TeardownFails(r)
    PROVE  /\ \A q \in Requests \ {r} : SameRequest(q)
           /\ pc'[r] = "idle" /\ req'[r] = NoRequest /\ todo'[r] = todo[r] /\ pc[r] = "respond"
           /\ newCustomers'[r] = NoCustomers /\ newAddresses'[r] = NoAddresses
           /\ lockedCustomers'[r] = {}
           /\ \A c \in Customers : customers'[c] \in {customers[c], newCustomers[r][c]}
           /\ \A c \in Customers : customers[c] # None => customers'[c] # None
           /\ \A a \in Addresses : addresses'[a] \in {addresses[a], newAddresses[r][a]}
           /\ \A a \in Addresses : addresses[a] # None => addresses'[a] # None
<1> USE DEF TypeOK, RequestTypeOK, StoreTypeOK
<1>1. CASE Teardown(r)
  BY <1>1 DEF Teardown, Finish, Commit, EndTransaction, CommittedCustomer, CommittedAddress,
              SameRequest
<1>2. CASE TeardownFails(r)
  BY <1>2 DEF TeardownFails, Finish, Rollback, EndTransaction, SameRequest
<1> QED
  BY <1>1, <1>2

\* StructureInv without the types.
RowsInv ==
    /\ RequestInv
    /\ \A r \in Requests : OwnOK(r)
    /\ \A r, q \in Requests : r # q => Apart(r, q) /\ Disjoint(r, q)

LEMMA RowsInvEquiv == StructureInv <=> TypeOK /\ RowsInv
BY DEF StructureInv, RowsInv, OwnOK, LocalInv, FreshInv, WriteSetInv

LEMMA StatementStructure ==
    ASSUME TypeOK, RowsInv, NEW r \in Requests, Statement(r) \/ StatementFails(r)
    PROVE  RowsInv'
<1>1. /\ \A q \in Requests \ {r} : SameRequest(q)
      /\ UNCHANGED <<customers, addresses, req>>
  BY StatementFrame
<1>2. LocalInv /\ FreshInv /\ WriteSetInv /\ RequestInv
  BY RowsInvEquiv DEF StructureInv
<1>3. RequestInv'
  BY <1>1, <1>2, RequestStep DEF RequestInv, RequestOK, SameRequest
<1>4. \A q \in Requests \ {r} : OwnOK(q)'
  BY <1>1, Untouched DEF RowsInv
<1>5. OwnOK(r)'
  BY <1>1, <1>2, LocalStep, WriteSetStep DEF OwnOK, FreshInv, FreshOK
<1>6. ASSUME NEW p \in Requests, NEW q \in Requests, p # q
      PROVE  Apart(p, q)' /\ Disjoint(p, q)'
  <2>1. Apart(p, q)'
    BY <1>1, <1>2, <1>6 DEF FreshInv, Apart
  <2>2. CASE p = r \/ q = r
    BY <1>2, <1>6, <2>1, <2>2, DisjointStep DEF RowsInv
  <2>3. CASE p # r /\ q # r
    BY <1>1, <1>6, <2>1, <2>3 DEF RowsInv, SameRequest, Disjoint
  <2> QED
    BY <2>2, <2>3
<1> QED
  BY <1>3, <1>4, <1>5, <1>6 DEF RowsInv

LEMMA ReceiveStructure ==
    ASSUME TypeOK, RowsInv, NEW r \in Requests, Receive(r)
    PROVE  RowsInv'
<1>1. /\ pc'[r] # "idle" /\ RequestOK(r)' /\ req'[r] \in Incoming
  BY ReceiveType
<1>2. /\ pc[r] = "idle" /\ UNCHANGED storeVars
      /\ \A q \in Requests \ {r} : SameRequest(q)
  BY DEF Receive, Reading, storeVars, SameRequest, TypeOK, RequestTypeOK
<1>3. RequestInv'
  BY <1>1, <1>2 DEF RowsInv, RequestInv, RequestOK, SameRequest
<1>4. \A q \in Requests \ {r} : OwnOK(q)'
  BY <1>2, Untouched DEF RowsInv, storeVars
<1>5. /\ req'[r].op = "CreateCustomer" => req'[r].customer \in FreshCustomers
      /\ req'[r].fresh \subseteq FreshAddresses
  BY <1>1 DEF Incoming, CreateCustomerRequests, UpdateCustomerRequests, CreateAddressRequests,
              UpdateAddressRequests, DeleteAddressRequests, CustomerOnlyRequests
<1>6. /\ pc'[r] \in {"respond", "findEmail", "lockCustomer", "getCustomer"}
      /\ pc'[r] = "findEmail" => req'[r].op = "CreateCustomer"
      /\ todo'[r] = IF pc'[r] = "respond" THEN {} ELSE req'[r].fresh
  BY DEF Receive, Entry, TypeOK, RequestTypeOK
<1>7. OwnOK(r)'
  <2>1. /\ \A d \in Customers : newCustomers[r][d] = None
        /\ lockedCustomers[r] = {}
        /\ \A b \in Addresses : newAddresses[r][b] = None
    BY <1>2 DEF RowsInv, OwnOK, WriteSetOK, AfterCustomerWrite
  <2>2. WriteSetOK(r)'
    BY <1>2, <1>6, <2>1 DEF WriteSetOK, storeVars
  <2>3. FreshOK(r)'
    BY <1>2, <1>5 DEF FreshOK, FreshCustomers, FreshAddresses, storeVars
  <2>4. req'[r].op \notin Creations => req'[r].fresh = {}
    BY <1>1 DEF RequestOK
  <2>5. LocalOK(r)'
    BY <1>6, <2>4 DEF LocalOK
  <2> QED
    BY <2>2, <2>3, <2>5 DEF OwnOK
<1>8. ASSUME NEW p \in Requests, NEW q \in Requests, p # q
      PROVE  Apart(p, q)' /\ Disjoint(p, q)'
  <2>1. Disjoint(p, q)'
    BY <1>2, <1>8 DEF RowsInv, Disjoint, storeVars
  <2>2. CASE p = r
    BY <1>2, <1>5, <1>8, <2>1, <2>2 DEF Apart, SameRequest, FreshCustomers, FreshAddresses
  <2>3. CASE q = r
    BY <1>2, <1>5, <1>8, <2>1, <2>3 DEF Apart, SameRequest, FreshCustomers, FreshAddresses
  <2>4. CASE p # r /\ q # r
    BY <1>2, <1>8, <2>1, <2>4 DEF RowsInv, Apart, SameRequest
  <2> QED
    BY <2>2, <2>3, <2>4
<1> QED
  BY <1>3, <1>4, <1>7, <1>8 DEF RowsInv

LEMMA TeardownStructure ==
    ASSUME TypeOK, RowsInv, NEW r \in Requests, Teardown(r) \/ TeardownFails(r)
    PROVE  RowsInv'
<1>1. /\ \A q \in Requests \ {r} : SameRequest(q)
      /\ pc'[r] = "idle" /\ req'[r] = NoRequest /\ todo'[r] = todo[r] /\ pc[r] = "respond"
      /\ newCustomers'[r] = NoCustomers /\ newAddresses'[r] = NoAddresses
      /\ lockedCustomers'[r] = {}
      /\ \A c \in Customers : customers'[c] \in {customers[c], newCustomers[r][c]}
      /\ \A c \in Customers : customers[c] # None => customers'[c] # None
      /\ \A a \in Addresses : addresses'[a] \in {addresses[a], newAddresses[r][a]}
      /\ \A a \in Addresses : addresses[a] # None => addresses'[a] # None
  BY TeardownFrame
<1>2. RequestInv'
  BY <1>1 DEF RowsInv, RequestInv, RequestOK, SameRequest
<1>3. OwnOK(r)'
  <2>1. LocalOK(r) /\ todo[r] = {}
    BY <1>1 DEF RowsInv, OwnOK, LocalOK
  <2> QED
    BY <1>1, <2>1 DEF OwnOK, LocalOK, FreshOK, WriteSetOK, NoRequest, NoCustomers, NoAddresses,
                      Creations, AfterCustomerWrite
<1>4. ASSUME NEW q \in Requests \ {r}
      PROVE  OwnOK(q)'
  <2>1. OwnOK(q) /\ OwnOK(r) /\ Apart(r, q) /\ Disjoint(r, q) /\ SameRequest(q)
    BY <1>1 DEF RowsInv
  <2>2. pc[q] # "idle" => req[q].customer \in Customers /\ RequestOK(q)
    BY RequestFields DEF RowsInv
  <2>3. pc[q] = "idle" => req[q] = NoRequest
    BY DEF RowsInv, RequestInv
  <2>4. FreshOK(q)'
    <3>1. ASSUME req[q].op = "CreateCustomer"
          PROVE  customers'[req[q].customer] = None
      <4> DEFINE c == req[q].customer
      <4>1. c \in Customers /\ customers[c] = None
        BY <2>1, <2>2, <2>3, <3>1 DEF OwnOK, FreshOK, NoRequest
      <4>2. newCustomers[r][c] = None
        BY <2>1, <3>1, <4>1 DEF OwnOK, WriteSetOK, WritingOps, Apart
      <4> QED
        BY <1>1, <4>1, <4>2
    <3>2. ASSUME NEW a \in req[q].fresh
          PROVE  addresses'[a] = None
      <4>1. a \in Addresses /\ addresses[a] = None /\ a \notin req[r].fresh
        BY <2>1, <2>2, <2>3, <3>2 DEF OwnOK, FreshOK, NoRequest, RequestOK, Request, Apart
      <4>2. newAddresses[r][a] = None
        BY <2>1, <4>1 DEF OwnOK, WriteSetOK
      <4> QED
        BY <1>1, <4>1, <4>2
    <3> QED
      BY <2>1, <3>1, <3>2 DEF FreshOK, SameRequest
  <2>5. WriteSetOK(q)'
    <3>1. \A c \in lockedCustomers[q] : customers[c] # None => customers'[c] # None
      BY <1>1 DEF TypeOK, StoreTypeOK
    <3> QED
      BY <1>1, <2>1, <3>1 DEF OwnOK, WriteSetOK, SameRequest
  <2>6. LocalOK(q)'
    <3> DEFINE c == req[q].customer  a == req[q].address
    <3>1. req[q].op # "None" => c \in Customers
      BY <2>2, <2>3 DEF NoRequest
    <3>2. \A b \in todo[q] : addresses[b] # None => addresses'[b] # None
      BY <1>1 DEF TypeOK, RequestTypeOK
    <3>3. req[q].op \in {"UpdateAddress", "DeleteAddress"} => a \in Addresses
      BY <2>2, <2>3 DEF NoRequest, RequestOK
    <3>4. /\ pc'[q] = pc[q] /\ req'[q] = req[q] /\ entity'[q] = entity[q]
          /\ loaded'[q] = loaded[q] /\ todo'[q] = todo[q]
      BY <2>1 DEF SameRequest
    <3>5. c \in Customers /\ customers[c] # None => customers'[c] # None
      BY <1>1
    <3>6. a \in Addresses /\ addresses[a] # None => addresses'[a] # None
      BY <1>1
    <3> QED
      BY <2>1, <3>1, <3>2, <3>3, <3>4, <3>5, <3>6 DEF OwnOK, LocalOK
  <2> QED
    BY <2>4, <2>5, <2>6 DEF OwnOK
<1>5. ASSUME NEW p \in Requests, NEW q \in Requests, p # q
      PROVE  Apart(p, q)' /\ Disjoint(p, q)'
  BY <1>1, <1>5 DEF RowsInv, Apart, Disjoint, SameRequest, NoRequest, NoAddresses
<1> QED
  BY <1>2, <1>3, <1>4, <1>5 DEF RowsInv

-----------------------------------------------------------------------------
(* The theorems.                                                           *)

LEMMA InitStructure ==
    ASSUME Init
    PROVE  StructureInv
<1>1. TypeOK
  BY SeedAssumption, BoundsAssumption
  DEF Init, StoreInit, TypeOK, StoreTypeOK, RequestTypeOK, NoCustomers, NoAddresses, Points, Codes
<1>2. RowsInv
  BY DEF Init, StoreInit, RowsInv, RequestInv, OwnOK, LocalOK, FreshOK, WriteSetOK, Apart, Disjoint,
         NoRequest, NoCustomers, NoAddresses, Creations, WritingOps, AfterCustomerWrite
<1> QED
  BY <1>1, <1>2, RowsInvEquiv

LEMMA NextStructure ==
    ASSUME StructureInv, [Next]_vars
    PROVE  StructureInv'
<1>1. TypeOK /\ RowsInv /\ RequestInv /\ LocalInv /\ WriteSetInv
  BY RowsInvEquiv DEF StructureInv
<1>2. TypeOK' /\ RowsInv' => StructureInv'
  BY DEF StructureInv, RowsInv, OwnOK, LocalInv, FreshInv, WriteSetInv
<1>3. ASSUME NEW r \in Requests, Receive(r)
      PROVE  StructureInv'
  BY <1>1, <1>2, <1>3, ReceiveType, ReceiveStructure
<1>4. ASSUME NEW r \in Requests, Statement(r) \/ StatementFails(r)
      PROVE  StructureInv'
  <2>1. TypeOK'
    BY <1>1, <1>4, ReadType, WriteType, AbortType DEF Statement
  <2> QED
    BY <1>1, <1>2, <1>4, <2>1, StatementStructure
<1>5. ASSUME NEW r \in Requests, Teardown(r) \/ TeardownFails(r)
      PROVE  StructureInv'
  BY <1>1, <1>2, <1>5, TeardownType, TeardownStructure
<1>6. CASE UNCHANGED vars
  <2> USE <1>6 DEF vars, storeVars, requestVars
  <2>1. TypeOK'
    BY <1>1 DEF TypeOK, StoreTypeOK, RequestTypeOK
  <2>2. \A q \in Requests : OwnOK(q)'
    BY <1>1, Untouched DEF RowsInv, SameRequest
  <2>3. RequestInv'
    BY <1>1 DEF RequestInv, RequestOK
  <2>4. \A p, q \in Requests : p # q => Apart(p, q)' /\ Disjoint(p, q)'
    BY <1>1 DEF RowsInv, Apart, Disjoint
  <2> QED
    BY <1>2, <2>1, <2>2, <2>3, <2>4 DEF RowsInv
<1> QED
  BY <1>3, <1>4, <1>5, <1>6 DEF Next, Failure

\* The structural invariant holds of every behaviour.
THEOREM StructureCorrect == Spec => []StructureInv
<1>1. Init => StructureInv
  BY InitStructure
<1>2. StructureInv /\ [Next]_vars => StructureInv'
  BY NextStructure
<1> QED
  BY <1>1, <1>2, PTL DEF Spec

\* Every variable stays in its type, whatever the numbers of rows and threads.
THEOREM TypeCorrect == Spec => []TypeOK
<1>1. StructureInv => TypeOK
  BY DEF StructureInv
<1> QED
  BY <1>1, StructureCorrect, PTL

\* The commit after an error response publishes nothing.
THEOREM ErrorsCommitNothing == Spec => []RejectedLeaveNothing
<1>1. StructureInv => RejectedLeaveNothing
  <2> SUFFICES ASSUME StructureInv, NEW r \in Requests, pc[r] = "respond", code[r] # "OK"
               PROVE  newCustomers[r] = NoCustomers /\ newAddresses[r] = NoAddresses
    BY DEF RejectedLeaveNothing
  <2>1. WriteSetOK(r)
    BY DEF StructureInv, WriteSetInv
  <2>2. /\ newCustomers[r] \in [Customers -> CustomerRow \cup {None}]
        /\ newAddresses[r] \in [Addresses -> AddressRow \cup {None}]
    BY DEF StructureInv, TypeOK, StoreTypeOK
  <2>3. /\ \A c \in Customers : newCustomers[r][c] = None
        /\ \A a \in Addresses : newAddresses[r][a] = None
    BY <2>1 DEF WriteSetOK
  <2> QED
    BY <2>2, <2>3 DEF NoCustomers, NoAddresses
<1> QED
  BY <1>1, StructureCorrect, PTL

-----------------------------------------------------------------------------
(* No two customers ever share an e-mail or an identification: each        *)
(* transaction enters its key in the index before it can commit, and an    *)
(* indexed key has no rival among the committed rows nor among the keys    *)
(* indexed by the others.                                                  *)

\* A transaction has versions of its request's customer only.
LEMMA OneVersion ==
    ASSUME StructureInv, NEW r \in Requests, NEW c \in Customers, newCustomers[r][c] # None
    PROVE  /\ c = req[r].customer /\ newCustomers[r][c] \in CustomerRow
           /\ c \in lockedCustomers[r] /\ pc[r] \in AfterCustomerWrite
BY DEF StructureInv, WriteSetInv, WriteSetOK, TypeOK, StoreTypeOK

\* What a statement of r does to the keys of its transaction: nothing, ...
LEMMA KeysKept ==
    ASSUME StructureInv, KeysInv, NEW r \in Requests, UNCHANGED customers,
           \A q \in Requests \ {r} : SameRequest(q),
           newCustomers'[r] = newCustomers[r], indexed'[r] = indexed[r], IndexOK(r)'
    PROVE  KeysInv'
<1>1. \A q \in Requests : /\ newCustomers'[q] = newCustomers[q] /\ indexed'[q] = indexed[q]
                          /\ q # r => pc'[q] = pc[q]
  BY DEF SameRequest
<1>2. \A q \in Requests : IndexOK(q)'
  BY <1>1 DEF KeysInv, IndexOK, HasVersion
<1> QED
  BY <1>1, <1>2 DEF KeysInv, UniqueKeys, Unrivalled, NoRivals

\* ... or they all disappear, ...
LEMMA KeysDropped ==
    ASSUME StructureInv, KeysInv, NEW r \in Requests, UNCHANGED customers,
           \A q \in Requests \ {r} : SameRequest(q),
           newCustomers'[r] = NoCustomers, indexed'[r] = {}
    PROVE  KeysInv'
<1>1. \A q \in Requests \ {r} : /\ newCustomers'[q] = newCustomers[q]
                                /\ indexed'[q] = indexed[q] /\ pc'[q] = pc[q]
  BY DEF SameRequest
<1>2. \A q \in Requests \ {r} : IndexOK(q)' /\ Unrivalled(q)'
  BY <1>1 DEF KeysInv, IndexOK, HasVersion, Unrivalled
<1>3. IndexOK(r)' /\ Unrivalled(r)'
  BY DEF IndexOK, HasVersion, Unrivalled, NoCustomers
<1>4. \A p, q \in Requests : p # q => NoRivals(p, q)'
  BY <1>1 DEF KeysInv, NoRivals
<1> QED
  BY <1>2, <1>3, <1>4 DEF KeysInv, UniqueKeys

\* ... or a version without indexed keys appears, ...
LEMMA KeysWritten ==
    ASSUME StructureInv, KeysInv, NEW r \in Requests, UNCHANGED <<customers, indexed>>,
           \A q \in Requests \ {r} : SameRequest(q),
           ~HasVersion(r), pc'[r] = "emailIndex"
    PROVE  KeysInv'
<1>1. \A q \in Requests \ {r} : newCustomers'[q] = newCustomers[q] /\ pc'[q] = pc[q]
  BY DEF SameRequest
<1>2. indexed[r] = {}
  BY DEF KeysInv, IndexOK
<1>3. \A q \in Requests \ {r} : IndexOK(q)' /\ Unrivalled(q)'
  BY <1>1 DEF KeysInv, IndexOK, HasVersion, Unrivalled
<1>4. IndexOK(r)' /\ Unrivalled(r)'
  BY <1>2 DEF IndexOK, Unrivalled
<1>5. \A p, q \in Requests : p # q => NoRivals(p, q)'
  BY <1>1, <1>2 DEF KeysInv, NoRivals
<1> QED
  BY <1>3, <1>4, <1>5 DEF KeysInv, UniqueKeys

\* ... or its key enters an index that has no rival for it.
LEMMA KeysIndexed ==
    ASSUME StructureInv, KeysInv, NEW r \in Requests, EnterIndex(r)
    PROVE  KeysInv'
<1> DEFINE c == req[r].customer  k == IndexOf(pc[r])  v == newCustomers[r][c][k]
<1>1. /\ pc[r] \in {"emailIndex", "identIndex"}
      /\ KeyFree(r, c, k, v) /\ ~KeyTaken(c, k, v)
      /\ indexed' = [indexed EXCEPT ![r] = @ \cup {k}]
      /\ UNCHANGED <<customers, newCustomers>>
  BY DEF EnterIndex
<1>2. c \in Customers /\ newCustomers[r][c] # None /\ k \in Keys
      /\ \A d \in Customers : newCustomers[r][d] # None => d = c
  BY <1>1, RequestFields, OneVersion DEF StructureInv, WriteSetInv, WriteSetOK, IndexOf, Keys
<1>3. indexed'[r] = indexed[r] \cup {k} /\ \A q \in Requests \ {r} : indexed'[q] = indexed[q]
  BY <1>1 DEF StructureInv, TypeOK, StoreTypeOK
<1>4. \A q \in Requests \ {r} : pc'[q] = pc[q]
  BY StatementFrame DEF StructureInv, SameRequest, Statement
<1>5. IndexOK(r)'
  <2>1. HasVersion(r) /\ HasVersion(r)'
    BY <1>1, <1>2 DEF HasVersion
  <2>2. /\ pc[r] = "emailIndex" => pc'[r] = "identIndex"
        /\ pc[r] = "identIndex" => pc'[r] \notin {"emailIndex", "identIndex"}
    <3>1. \A p : Goto(r, p) => pc'[r] = p
      BY DEF Goto, StructureInv, TypeOK, RequestTypeOK
    <3>2. \A e : Reply(r, e) => pc'[r] = "respond"
      BY <3>1 DEF Reply
    <3> QED
      BY <1>1, <3>1, <3>2 DEF EnterIndex
  <2>3. CASE pc[r] = "emailIndex"
    <3>1. indexed[r] = {} /\ k = "email"
      BY <2>3 DEF KeysInv, IndexOK, IndexOf
    <3>2. indexed'[r] = {"email"}
      BY <1>3, <3>1
    <3> QED
      BY <2>1, <2>2, <2>3, <3>2 DEF IndexOK
  <2>4. CASE pc[r] = "identIndex"
    <3>1. indexed[r] = {"email"}
      BY <2>1, <2>4 DEF KeysInv, IndexOK
    <3>2. indexed'[r] = Keys
      BY <1>3, <2>4, <3>1 DEF IndexOf, Keys
    <3> QED
      BY <2>1, <2>2, <2>4, <3>2 DEF IndexOK
  <2> QED
    BY <1>1, <2>3, <2>4
<1>6. \A q \in Requests : IndexOK(q)'
  <2>1. ASSUME NEW q \in Requests \ {r}
        PROVE  IndexOK(q)'
    <3>1. HasVersion(q)' <=> HasVersion(q)
      BY <1>1 DEF HasVersion
    <3>2. IndexOK(q)
      BY DEF KeysInv
    <3> QED
      BY <1>3, <1>4, <3>1, <3>2 DEF IndexOK
  <2> QED
    BY <1>5, <2>1
<1>7. Unrivalled(r)'
  <2>1. \A d \in Customers \ {c} : customers[d] # None => customers[d][k] # v
    BY <1>1 DEF KeyTaken, HasKey
  <2> QED
    BY <1>1, <1>2, <1>3, <2>1 DEF KeysInv, Unrivalled
<1>8. \A q \in Requests \ {r} : Unrivalled(q)'
  BY <1>1, <1>3 DEF KeysInv, Unrivalled
<1>9. \A q \in Requests \ {r} : NoRivals(r, q)' /\ NoRivals(q, r)'
  <2> SUFFICES ASSUME NEW q \in Requests \ {r}
               PROVE  NoRivals(r, q)' /\ NoRivals(q, r)'
    OBVIOUS
  <2>1. \A d \in Customers \ {c} :
            newCustomers[q][d] # None /\ k \in indexed[q] => newCustomers[q][d][k] # v
    BY <1>1 DEF KeyFree, KeyBusy, HasKey
  <2>2. NoRivals(r, q)'
    BY <1>1, <1>2, <1>3, <2>1 DEF KeysInv, NoRivals
  <2>3. NoRivals(q, r)'
    BY <1>1, <1>2, <1>3, <2>1 DEF KeysInv, NoRivals
  <2> QED
    BY <2>2, <2>3
<1>10. \A p, q \in Requests : p # q => NoRivals(p, q)'
  BY <1>1, <1>3, <1>9 DEF KeysInv, NoRivals
<1> QED
  BY <1>1, <1>6, <1>7, <1>8, <1>10 DEF KeysInv, UniqueKeys

\* A commit publishes keys that had no rival.
LEMMA KeysCommitted ==
    ASSUME StructureInv, KeysInv, NEW r \in Requests, Teardown(r)
    PROVE  KeysInv'
<1>1. /\ \A q \in Requests \ {r} : SameRequest(q)
      /\ newCustomers'[r] = NoCustomers /\ pc[r] = "respond"
      /\ \A c \in Customers : customers'[c] \in {customers[c], newCustomers[r][c]}
  BY TeardownFrame DEF StructureInv
<1>2. indexed'[r] = {}
  BY DEF Teardown, Commit, EndTransaction, StructureInv, TypeOK, StoreTypeOK
<1>3. \A c \in Customers :
          customers'[c] # customers[c] =>
              /\ customers'[c] = newCustomers[r][c] /\ newCustomers[r][c] # None
              /\ c = req[r].customer /\ c \in lockedCustomers[r] /\ indexed[r] = Keys
  <2> SUFFICES ASSUME NEW c \in Customers, customers'[c] # customers[c]
               PROVE  /\ customers'[c] = newCustomers[r][c] /\ newCustomers[r][c] # None
                      /\ c = req[r].customer /\ c \in lockedCustomers[r] /\ indexed[r] = Keys
    OBVIOUS
  <2>1. customers'[c] = newCustomers[r][c] /\ newCustomers[r][c] # None
    BY DEF Teardown, Commit, CommittedCustomer
  <2>2. indexed[r] = Keys
    BY <1>1, <2>1 DEF KeysInv, IndexOK, HasVersion
  <2> QED
    BY <2>1, <2>2, OneVersion
<1>4. UniqueKeys'
  BY <1>3 DEF KeysInv, UniqueKeys, Unrivalled
<1>5. \A q \in Requests \ {r} : /\ newCustomers'[q] = newCustomers[q]
                                /\ indexed'[q] = indexed[q] /\ pc'[q] = pc[q]
                                /\ indexed[q] \subseteq Keys
  BY <1>1 DEF SameRequest, StructureInv, TypeOK, StoreTypeOK
<1>6. \A q \in Requests \ {r} : IndexOK(q)' /\ Unrivalled(q)'
  BY <1>3, <1>5 DEF KeysInv, IndexOK, HasVersion, Unrivalled, NoRivals
<1>7. IndexOK(r)' /\ Unrivalled(r)'
  BY <1>1, <1>2 DEF IndexOK, HasVersion, Unrivalled, NoCustomers
<1>8. \A p, q \in Requests : p # q => NoRivals(p, q)'
  BY <1>2, <1>5 DEF KeysInv, NoRivals
<1> QED
  BY <1>4, <1>6, <1>7, <1>8 DEF KeysInv
\* A step away from the two index entries keeps the keys if it leaves the
\* versions of customers alone and enters no index.
LEMMA KeysAside ==
    ASSUME StructureInv, KeysInv, NEW r \in Requests, UNCHANGED customers,
           \A q \in Requests \ {r} : SameRequest(q),
           newCustomers'[r] = newCustomers[r], indexed'[r] = indexed[r],
           pc[r] \notin {"emailIndex", "identIndex"},
           pc'[r] \notin {"emailIndex", "identIndex"}
    PROVE  KeysInv'
<1>1. HasVersion(r)' <=> HasVersion(r)
  BY DEF HasVersion
<1>2. IndexOK(r)'
  BY <1>1 DEF KeysInv, IndexOK
<1> QED
  BY <1>2, KeysKept

LEMMA StatementKeys ==
    ASSUME StructureInv, KeysInv, NEW r \in Requests, Statement(r) \/ StatementFails(r)
    PROVE  KeysInv'
<1>1. /\ UNCHANGED customers
      /\ \A q \in Requests \ {r} : SameRequest(q)
  BY StatementFrame DEF StructureInv
<1>2. /\ \A p : Goto(r, p) => pc'[r] = p
      /\ \A e : Reply(r, e) => pc'[r] = "respond"
  BY DEF Goto, Reply, StructureInv, TypeOK, RequestTypeOK
<1>3. CASE GetCustomer(r) \/ GetAddress(r) \/ FindByEmail(r) \/ FindByIdentification(r)
  <2>1. /\ UNCHANGED <<newCustomers, indexed>>
        /\ pc[r] \in {"getCustomer", "getAddress", "findEmail", "findIdent"}
        /\ pc'[r] \notin {"emailIndex", "identIndex"}
    BY <1>2, <1>3 DEF GetCustomer, GetAddress, FindByEmail, FindByIdentification,
                      Reading, storeVars
  <2> QED
    BY <1>1, <2>1, KeysAside
<1>4. CASE Reload(r) \/ CountActive(r) \/ SelectAddresses(r) \/ ListAddresses(r)
  <2>1. /\ UNCHANGED <<newCustomers, indexed>>
        /\ pc[r] \in {"reload", "count", "selectAddresses", "list"}
        /\ pc'[r] \notin {"emailIndex", "identIndex"}
    BY <1>2, <1>4 DEF Reload, CountActive, SelectAddresses, ListAddresses,
                      Reading, storeVars
  <2> QED
    BY <1>1, <2>1, KeysAside
<1>5. CASE LockCustomer(r) \/ AddAddress(r) \/ UpdateAddressRow(r) \/ CascadeDelete(r)
  <2>1. /\ UNCHANGED <<newCustomers, indexed>>
        /\ pc[r] \in {"lockCustomer", "addAddress", "writeAddress", "cascade"}
        /\ pc'[r] \notin {"emailIndex", "identIndex"}
    BY <1>2, <1>5 DEF LockCustomer, AddAddress, UpdateAddressRow, CascadeDelete
  <2> QED
    BY <1>1, <2>1, KeysAside
<1>6. CASE InsertCustomer(r) \/ UpdateCustomerRow(r)
  <2>1. /\ pc[r] \in {"insertCustomer", "writeCustomer"} /\ pc'[r] = "emailIndex"
        /\ UNCHANGED <<customers, indexed>>
    BY <1>2, <1>6 DEF InsertCustomer, UpdateCustomerRow
  <2>2. ~HasVersion(r)
    BY <2>1, OneVersion DEF HasVersion, AfterCustomerWrite
  <2> QED
    BY <1>1, <2>1, <2>2, KeysWritten
<1>7. CASE EnterIndex(r)
  BY <1>7, KeysIndexed
<1>8. CASE DuplicateKey(r) \/ DeadlockVictim(r) \/ StatementFails(r)
  <2>1. newCustomers'[r] = NoCustomers /\ indexed'[r] = {}
    BY <1>8 DEF DuplicateKey, DeadlockVictim, StatementFails, Rollback, EndTransaction,
                StructureInv, TypeOK, StoreTypeOK
  <2> QED
    BY <1>1, <2>1, KeysDropped
<1> QED
  BY <1>3, <1>4, <1>5, <1>6, <1>7, <1>8 DEF Statement

LEMMA ReceiveKeys ==
    ASSUME StructureInv, KeysInv, NEW r \in Requests, Receive(r)
    PROVE  KeysInv'
<1>1. UNCHANGED <<customers, newCustomers, indexed>> /\ pc[r] = "idle"
  BY DEF Receive, Reading, storeVars
<1>2. ~HasVersion(r)
  BY <1>1, OneVersion DEF HasVersion, AfterCustomerWrite
<1>3. IndexOK(r)'
  BY <1>1, <1>2 DEF KeysInv, IndexOK, HasVersion
<1>4. \A q \in Requests \ {r} : pc'[q] = pc[q]
  BY DEF Receive, StructureInv, TypeOK, RequestTypeOK
<1>5. \A q \in Requests : IndexOK(q)'
  BY <1>1, <1>3, <1>4 DEF KeysInv, IndexOK, HasVersion
<1> QED
  BY <1>1, <1>5 DEF KeysInv, UniqueKeys, Unrivalled, NoRivals

LEMMA InitKeys == Init => KeysInv
<1> SUFFICES ASSUME Init
             PROVE  KeysInv
  OBVIOUS
<1>1. UniqueKeys
  BY SeedAssumption DEF Init, StoreInit, UniqueKeys
<1>2. \A r \in Requests : IndexOK(r) /\ Unrivalled(r)
  BY DEF Init, StoreInit, IndexOK, HasVersion, NoCustomers, Unrivalled
<1>3. \A r, q \in Requests : NoRivals(r, q)
  BY DEF Init, StoreInit, NoRivals
<1> QED
  BY <1>1, <1>2, <1>3 DEF KeysInv

LEMMA NextKeys ==
    ASSUME StructureInv, KeysInv, [Next]_vars
    PROVE  KeysInv'
<1>1. ASSUME NEW r \in Requests, Receive(r)
      PROVE  KeysInv'
  BY <1>1, ReceiveKeys
<1>2. ASSUME NEW r \in Requests, Statement(r) \/ StatementFails(r)
      PROVE  KeysInv'
  BY <1>2, StatementKeys
<1>3. ASSUME NEW r \in Requests, Teardown(r)
      PROVE  KeysInv'
  BY <1>3, KeysCommitted
<1>4. ASSUME NEW r \in Requests, TeardownFails(r)
      PROVE  KeysInv'
  <2>1. newCustomers'[r] = NoCustomers /\ indexed'[r] = {} /\ UNCHANGED customers
    BY <1>4 DEF TeardownFails, Rollback, EndTransaction, StructureInv, TypeOK, StoreTypeOK
  <2>2. \A q \in Requests \ {r} : SameRequest(q)
    BY <1>4, TeardownFrame DEF StructureInv
  <2> QED
    BY <2>1, <2>2, KeysDropped
<1>5. CASE UNCHANGED vars
  <2>1. UNCHANGED <<customers, newCustomers, indexed, pc>>
    BY <1>5 DEF vars, storeVars, requestVars
  <2>2. \A q \in Requests : IndexOK(q)'
    BY <2>1 DEF KeysInv, IndexOK, HasVersion
  <2> QED
    BY <2>1, <2>2 DEF KeysInv, UniqueKeys, Unrivalled, NoRivals
<1> QED
  BY <1>1, <1>2, <1>3, <1>4, <1>5 DEF Next, Failure

\* RN-001: no two customers share an e-mail or an identification, however many
\* clients create and update customers at once.
THEOREM KeysUnique == Spec => []UniqueKeys
<1>1. Init => KeysInv
  BY InitKeys
<1>2. StructureInv /\ KeysInv /\ [Next]_vars => KeysInv'
  BY NextKeys
<1>3. KeysInv => UniqueKeys
  BY DEF KeysInv
<1> QED
  BY <1>1, <1>2, <1>3, StructureCorrect, PTL DEF Spec
=============================================================================
