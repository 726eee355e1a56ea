--------------------------- MODULE SubagentProofs ---------------------------
(***************************************************************************)
(* Proofs, for every value of the constants, of the safety properties of   *)
(* Subagent.                                                               *)
(***************************************************************************)
EXTENDS SubagentProperties, TLAPS

-----------------------------------------------------------------------------
(* Requests.                                                               *)

Step(r) ==
    \/ Receive(r)           \/ Answer(r)            \/ StatementFails(r)
    \/ GetCustomer(r)       \/ GetAddress(r)        \/ List(r)  \/ Reload(r)
    \/ InsertCustomer(r)    \/ InsertAddress(r)
    \/ UpdateCustomerRow(r) \/ UpdateAddressRow(r)  \/ Refresh(r)

\* A request that arrives has the shape of its operation, and its entry point
\* is one of that operation.
LEMMA IncomingShape ==
    ASSUME NEW q \in Incoming
    PROVE  /\ Shape(q)
           /\ Entry(q.op) \in {"insertCustomer", "getCustomer", "list"}
           /\ q.op \in Doing(Entry(q.op))
           /\ q.op = "CreateAddress" =>
                 /\ addresses[q.address] = None
                 /\ \A r \in Requests : req[r].op = "CreateAddress" => req[r].address # q.address
<1>1. Shape(q)
  BY DEF Incoming, Shape, Request, Operations, OnOneAddress, FreshCustomers, FreshAddresses
<1>2. q.op \in Operations
  BY <1>1 DEF Shape, Request
<1>3. Entry(q.op) \in {"insertCustomer", "getCustomer", "list"} /\ q.op \in Doing(Entry(q.op))
  BY <1>2 DEF Entry, Doing, Operations
<1>4. q.op = "CreateAddress" => q.address \in FreshAddresses
  BY DEF Incoming
<1> QED
  BY <1>1, <1>3, <1>4 DEF FreshAddresses, Creating

\* The fields a statement uses exist: its request is the one of its point.
LEMMA Fields ==
    ASSUME RequestInv, NEW r \in Requests, pc[r] # "idle"
    PROVE  /\ req[r] \in Request /\ req[r].op \in Operations
           /\ req[r].op \in Doing(pc[r])
           /\ req[r].op # "ListCustomers" => req[r].customer \in Customers
           /\ req[r].op \in OnOneAddress \cup {"CreateAddress"} => req[r].address \in Addresses
           /\ req[r].op = "CreateCustomer" => req[r].email \in Emails
BY DEF RequestInv, Shape, Request

\* A step of r leaves the other requests where they are, and only adds to the
\* deletions they have met.
LEMMA OtherRequests ==
    ASSUME TypeOK, NEW r \in Requests, Step(r)
    PROVE  \A o \in Requests \ {r} :
               /\ pc'[o] = pc[o]         /\ req'[o] = req[o]        /\ code'[o] = code[o]
               /\ entity'[o] = entity[o] /\ loaded'[o] = loaded[o]  /\ wrote'[o] = wrote[o]
               /\ overlapped[o] \subseteq overlapped'[o]
<1> USE DEF TypeOK, Goto, Reply, Reading, Forget, Committed
<1>1. CASE Receive(r) \/ Answer(r) \/ StatementFails(r)
  BY <1>1 DEF Receive, Answer, StatementFails
<1>2. CASE GetCustomer(r)
  BY <1>2 DEF GetCustomer
<1>3. CASE GetAddress(r) \/ List(r) \/ Reload(r) \/ Refresh(r)
  BY <1>3 DEF GetAddress, List, Reload, Refresh
<1>4. CASE InsertCustomer(r) \/ InsertAddress(r)
  BY <1>4 DEF InsertCustomer, InsertAddress, EmailConflict
<1>5. CASE UpdateCustomerRow(r)
  <2>1. \A o \in Requests \ {r} : overlapped[o] \subseteq overlapped'[o]
    BY <1>5 DEF UpdateCustomerRow, EmailConflict, Overlap
  <2>2. \A o \in Requests \ {r} : pc'[o] = pc[o] /\ req'[o] = req[o] /\ code'[o] = code[o] /\ wrote'[o] = wrote[o]
    BY <1>5 DEF UpdateCustomerRow, EmailConflict
  <2> QED
    BY <1>5, <2>1, <2>2 DEF UpdateCustomerRow
<1>6. CASE UpdateAddressRow(r)
  <2>1. \A o \in Requests \ {r} : overlapped[o] \subseteq overlapped'[o]
    BY <1>6 DEF UpdateAddressRow, Overlap
  <2> QED
    BY <1>6, <2>1 DEF UpdateAddressRow
<1> QED
  BY <1>1, <1>2, <1>3, <1>4, <1>5, <1>6 DEF Step

\* What r's own step does to r: it arrives, is forgotten, or stays the request
\* it is.
LEMMA OwnRequest ==
    ASSUME TypeOK, RequestInv, NEW r \in Requests, Step(r), ~Receive(r), ~Answer(r)
    PROVE  /\ pc[r] \notin {"idle", "respond"} /\ pc'[r] # "idle"
           /\ req'[r] = req[r] /\ UNCHANGED req
<1> USE DEF TypeOK, Goto, Reply
<1>1. CASE StatementFails(r) \/ List(r) \/ Reload(r) \/ Refresh(r) \/ GetAddress(r)
  BY <1>1 DEF StatementFails, List, Reload, Refresh, GetAddress
<1>2. CASE GetCustomer(r)
  <2>1. AfterCustomer(req[r].op) # "idle"
    BY DEF AfterCustomer
  <2> QED
    BY <1>2, <2>1 DEF GetCustomer
<1>3. CASE InsertCustomer(r) \/ InsertAddress(r) \/ UpdateCustomerRow(r) \/ UpdateAddressRow(r)
  BY <1>3 DEF InsertCustomer, InsertAddress, UpdateCustomerRow, UpdateAddressRow, EmailConflict
<1> QED
  BY <1>1, <1>2, <1>3 DEF Step

-----------------------------------------------------------------------------
(* Types.                                                                  *)

\* What a write stores is a row, with the e-mail and the deletion mark of the
\* entity or of the row it finds.
LEMMA StoredRow ==
    ASSUME TypeOK, RequestInv, RowsInv, NEW r \in Requests, pc[r] = "write"
    PROVE  /\ req[r].op \in OnOneCustomer =>
                /\ req[r].customer \in Customers /\ customers[req[r].customer] \in CustomerRow
                /\ Column("email", customers[req[r].customer], loaded[r], entity[r]) \in Emails
                /\ Column("deleted", customers[req[r].customer], loaded[r], entity[r]) \in BOOLEAN
           /\ req[r].op \in OnOneAddress =>
                /\ req[r].address \in Addresses /\ addresses[req[r].address] \in AddressRow
                /\ Column("deleted", addresses[req[r].address], loaded[r], entity[r]) \in BOOLEAN
           /\ req[r].op \in OnOneAddress <=> req[r].op \notin OnOneCustomer
<1>1. req[r].op \in {"UpdateAddress", "DeleteAddress"} \cup OnOneCustomer
  BY DEF RequestInv, Doing
<1>2. req[r].op \in OnOneAddress <=> req[r].op \notin OnOneCustomer
  BY <1>1 DEF OnOneAddress, OnOneCustomer
<1>3. ASSUME req[r].op \in OnOneCustomer
      PROVE  /\ req[r].customer \in Customers /\ customers[req[r].customer] \in CustomerRow
             /\ entity[r] \in CustomerRow /\ loaded[r] \in CustomerRow
  BY <1>2, <1>3, Fields DEF RequestInv, RowsInv, Changing, TypeOK, OnOneCustomer
<1>4. ASSUME req[r].op \in OnOneAddress
      PROVE  /\ req[r].address \in Addresses /\ addresses[req[r].address] \in AddressRow
             /\ entity[r] \in AddressRow /\ loaded[r] \in AddressRow
  BY <1>4, Fields DEF RequestInv, RowsInv, Changing, TypeOK, OwnAddress
<1> QED
  BY <1>2, <1>3, <1>4 DEF Column, CustomerRow, AddressRow

\* Every action keeps the types.
LEMMA TypeStep ==
    ASSUME TypeOK, RequestInv, RowsInv, NEW r \in Requests, Step(r)
    PROVE  TypeOK'
<1> USE DEF TypeOK, tables
<1> DEFINE q == req[r]
<1>1. CASE Receive(r)
  <2>1. PICK i \in Incoming :
             /\ req' = [req EXCEPT ![r] = i]
             /\ \/ /\ pc' = [pc EXCEPT ![r] = Entry(i.op)]
                   /\ UNCHANGED code
                \/ /\ pc' = [pc EXCEPT ![r] = "respond"]
                   /\ code' = [code EXCEPT ![r] = "VALIDATION"]
    BY <1>1 DEF Receive
  <2>2. i \in Request /\ Entry(i.op) \in Points
    BY IncomingShape DEF Shape, Points
  <2> QED
    BY <1>1, <2>1, <2>2 DEF Receive, Points, Codes
<1>2. CASE Answer(r)
  BY <1>2 DEF Answer, Points, Codes
<1>3. CASE StatementFails(r)
  BY <1>3, DataAssumption DEF StatementFails, Reply, Forget, FailureCode, Points, Codes
<1>4. CASE GetCustomer(r)
  <2>1. q.customer \in Customers /\ q.op \in Operations /\ q \in Request
    BY <1>4, Fields DEF GetCustomer, Doing
  <2>2. AfterCustomer(q.op) \in Points
    BY DEF AfterCustomer, Points
  <2>3. FoundCustomer(q) => Modified(customers[q.customer], q) \in CustomerRow
    <3>1. FoundCustomer(q) => customers[q.customer] \in CustomerRow
      BY <2>1 DEF FoundCustomer, ActiveCustomer
    <3>2. q.email # None => q.email \in Emails
      BY <2>1 DEF Request
    <3> QED
      BY <3>1, <3>2 DEF Modified, CustomerRow
  <2>4. (entity \in [Requests -> CustomerRow \cup AddressRow \cup {None}])'
    BY <1>4, <2>3 DEF GetCustomer
  <2> QED
    BY <1>4, <2>2, <2>4 DEF GetCustomer, Reading, Goto, Reply, Points, Codes
<1>5. CASE GetAddress(r)
  <2>1. q.address \in Addresses
    BY <1>5, Fields DEF GetAddress, Doing
  <2>2. FoundAddress(q) => [addresses[q.address] EXCEPT !.deleted = (q.op = "DeleteAddress")] \in AddressRow
    BY <2>1 DEF FoundAddress, OwnAddress, AddressRow
  <2>3. (entity \in [Requests -> CustomerRow \cup AddressRow \cup {None}])'
    BY <1>5, <2>2 DEF GetAddress
  <2> QED
    BY <1>5, <2>3 DEF GetAddress, Reading, Goto, Reply, Points, Codes
<1>6. CASE List(r) \/ Refresh(r)
  BY <1>6 DEF List, Refresh, Reading, Reply, Points, Codes
<1>7. CASE Reload(r)
  <2>1. /\ q.op \in OnOneAddress => q.address \in Addresses
        /\ q.customer \in Customers
    BY <1>7, Fields DEF Reload, Doing, OnOneCustomer
  <2>2. (loaded \in [Requests -> CustomerRow \cup AddressRow \cup {None}])'
    BY <1>7, <2>1 DEF Reload
  <2> QED
    BY <1>7, <2>2 DEF Reload, Reading, Goto, Points
<1>8. CASE InsertCustomer(r)
  <2>1. q.customer \in Customers /\ q.email \in Emails
    BY <1>8, Fields DEF InsertCustomer, Doing
  <2>2. [email |-> q.email, deleted |-> FALSE] \in CustomerRow
    BY <2>1 DEF CustomerRow
  <2>3. (customers \in [Customers -> CustomerRow \cup {None}])'
    BY <1>8, <2>1, <2>2 DEF InsertCustomer
  <2> QED
    BY <1>8, <2>3 DEF InsertCustomer, EmailConflict, Committed, Goto, Reply, Points, Codes
<1>9. CASE InsertAddress(r)
  <2>1. q.customer \in Customers /\ q.address \in Addresses
    BY <1>9, Fields DEF InsertAddress, Doing
  <2>2. [owner |-> q.customer, deleted |-> FALSE] \in AddressRow
    BY <2>1 DEF AddressRow
  <2>3. (addresses \in [Addresses -> AddressRow \cup {None}])'
    BY <1>9, <2>1, <2>2 DEF InsertAddress
  <2> QED
    BY <1>9, <2>3 DEF InsertAddress, Committed, Goto, Points
<1>10. CASE UpdateCustomerRow(r)
  <2> DEFINE row == [email   |-> Column("email", customers[q.customer], loaded[r], entity[r]),
                     deleted |-> Column("deleted", customers[q.customer], loaded[r], entity[r])]
  <2>1. q.customer \in Customers /\ customers[q.customer] \in CustomerRow /\ row \in CustomerRow
    BY <1>10, StoredRow DEF UpdateCustomerRow, OnOneCustomer, CustomerRow
  <2>2. [customers[q.customer] EXCEPT !.deleted = TRUE] \in CustomerRow
    BY <2>1 DEF CustomerRow
  <2>3. (customers \in [Customers -> CustomerRow \cup {None}])'
    BY <1>10, <2>1, <2>2 DEF UpdateCustomerRow
  <2>4. (overlapped \in [Requests -> SUBSET (Customers \cup Addresses)])'
    BY <1>10, <2>1 DEF UpdateCustomerRow, Overlap, EmailConflict
  <2> QED
    BY <1>10, <2>3, <2>4
    DEF UpdateCustomerRow, EmailConflict, Committed, Forget, Goto, Reply, Points, Codes
<1>11. CASE UpdateAddressRow(r)
  <2> DEFINE deleted == Column("deleted", addresses[q.address], loaded[r], entity[r])
  <2>1. q.address \in Addresses /\ addresses[q.address] \in AddressRow /\ deleted \in BOOLEAN
    BY <1>11, StoredRow DEF UpdateAddressRow
  <2> HIDE DEF deleted
  <2>2. [addresses[q.address] EXCEPT !.deleted = deleted] \in AddressRow
    BY <2>1 DEF AddressRow
  <2>3. (addresses \in [Addresses -> AddressRow \cup {None}])'
    BY <1>11, <2>1, <2>2 DEF UpdateAddressRow, deleted
  <2>4. (overlapped \in [Requests -> SUBSET (Customers \cup Addresses)])'
    BY <1>11, <2>1 DEF UpdateAddressRow, Overlap
  <2> QED
    BY <1>11, <2>3, <2>4 DEF UpdateAddressRow, Committed, Forget, Goto, Points
<1> QED
  BY <1>1, <1>2, <1>3, <1>4, <1>5, <1>6, <1>7, <1>8, <1>9, <1>10, <1>11 DEF Step

-----------------------------------------------------------------------------
(* Requests stay well formed.                                              *)

\* What the lookups hand over to the writes: an entity that only a deletion
\* marks as deleted.
LEMMA FoundEntity ==
    ASSUME TypeOK, RequestInv, NEW r \in Requests, GetCustomer(r) \/ GetAddress(r),
           pc'[r] = "reload"
    PROVE  /\ req[r].op \in {"UpdateAddress", "DeleteAddress"} \cup OnOneCustomer
           /\ req[r].op \in OnOneAddress =>
                 pc[r] = "getAddress" /\ FoundAddress(req[r]) /\ entity'[r] \in AddressRow
           /\ req[r].op \in OnOneCustomer =>
                 pc[r] = "getCustomer" /\ FoundCustomer(req[r]) /\ entity'[r] \in CustomerRow
           /\ req[r].op \in {"UpdateCustomer", "UpdateAddress"} => entity'[r].deleted = FALSE
<1> USE DEF TypeOK, Goto, Reply
<1> DEFINE q == req[r]
<1>1. CASE GetCustomer(r)
  <2>1. q \in Request /\ q.op \in Operations \ {"CreateCustomer", "ListCustomers"} /\ q.customer \in Customers
    BY <1>1, Fields DEF GetCustomer, Doing
  <2>2. FoundCustomer(q) /\ q.op # "GetCustomer" /\ AfterCustomer(q.op) = "reload"
    BY <1>1 DEF GetCustomer
  <2>3. q.op \in OnOneCustomer /\ q.op \notin OnOneAddress /\ q.op # "UpdateAddress"
    BY <2>1, <2>2 DEF AfterCustomer, OnOneCustomer, OnOneAddress, Operations
  <2>4. entity'[r] = Modified(customers[q.customer], q)
    BY <1>1, <2>2 DEF GetCustomer
  <2>5. customers[q.customer] \in CustomerRow /\ customers[q.customer].deleted = FALSE
    BY <2>1, <2>2 DEF FoundCustomer, ActiveCustomer, CustomerRow
  <2>6. q.email # None => q.email \in Emails
    BY <2>1 DEF Request
  <2> HIDE DEF q
  <2>7. entity'[r] \in CustomerRow /\ (q.op = "UpdateCustomer" => entity'[r].deleted = FALSE)
    BY <2>4, <2>5, <2>6 DEF Modified, CustomerRow
  <2> QED
    BY <1>1, <2>2, <2>3, <2>7 DEF GetCustomer, q
<1>2. CASE GetAddress(r)
  <2>1. q.op \in OnOneAddress /\ q.op \notin OnOneCustomer /\ q.address \in Addresses
    BY <1>2, Fields DEF GetAddress, Doing, OnOneAddress, OnOneCustomer
  <2>2. /\ FoundAddress(q) /\ q.op # "GetAddress"
        /\ entity'[r] = [addresses[q.address] EXCEPT !.deleted = (q.op = "DeleteAddress")]
    BY <1>2 DEF GetAddress
  <2>3. addresses[q.address] \in AddressRow
    BY <2>1, <2>2 DEF FoundAddress, OwnAddress
  <2>4. entity'[r] \in AddressRow
    BY <2>2, <2>3 DEF AddressRow
  <2>5. q.op = "UpdateAddress" => entity'[r].deleted = FALSE
    BY <2>2, <2>3 DEF AddressRow
  <2> QED
    BY <1>2, <2>1, <2>2, <2>4, <2>5 DEF GetAddress, OnOneAddress
<1> QED
  BY <1>1, <1>2

\* Where a statement takes its request.
LEMMA NextPoint ==
    ASSUME TypeOK, RequestInv, NEW r \in Requests, Step(r), ~Receive(r), ~Answer(r)
    PROVE  /\ req[r].op \in Doing(pc'[r])
           /\ pc'[r] = "reload"        => GetCustomer(r) \/ GetAddress(r)
           /\ pc'[r] = "write"         => Reload(r)
           /\ pc'[r] \in {"getAddress", "insertAddress"} => GetCustomer(r) /\ FoundCustomer(req[r])
           /\ pc'[r] \notin {"getCustomer", "insertCustomer"}
<1> USE DEF TypeOK, Goto, Reply
<1> DEFINE q == req[r]
<1>1. q.op \in Operations /\ q.op \in Doing(pc[r])
  BY OwnRequest, Fields
<1>2. CASE StatementFails(r) \/ List(r) \/ Refresh(r)
  BY <1>1, <1>2 DEF StatementFails, List, Refresh, Doing
<1>3. CASE Reload(r)
  BY <1>1, <1>3 DEF Reload, Doing
<1>4. CASE InsertCustomer(r) \/ InsertAddress(r) \/ UpdateCustomerRow(r) \/ UpdateAddressRow(r)
  <2>1. pc'[r] \in {"refresh", "respond"} /\ q.op \in Changes
    BY <1>1, <1>4
    DEF InsertCustomer, InsertAddress, UpdateCustomerRow, UpdateAddressRow, EmailConflict, Doing, Changes
  <2> QED
    BY <1>1, <2>1 DEF Doing
<1>5. CASE GetAddress(r)
  <2>1. \/ pc'[r] = "respond"
        \/ pc'[r] = "reload" /\ q.op \in {"UpdateAddress", "DeleteAddress"}
    BY <1>1, <1>5 DEF GetAddress, Doing, OnOneAddress
  <2> QED
    BY <1>1, <1>5, <2>1 DEF Doing
<1>6. CASE GetCustomer(r)
  <2>1. \/ pc'[r] = "respond"
        \/ pc'[r] = AfterCustomer(q.op) /\ q.op # "GetCustomer" /\ FoundCustomer(q)
    BY <1>6 DEF GetCustomer
  <2>2. q.op \in Operations \ {"CreateCustomer", "ListCustomers"}
    BY <1>1, <1>6 DEF GetCustomer, Doing
  <2>3. CASE pc'[r] = "respond"
    BY <1>1, <2>3 DEF Doing
  <2>4. CASE pc'[r] = AfterCustomer(q.op) /\ q.op # "GetCustomer" /\ FoundCustomer(q)
    <3>1. /\ AfterCustomer(q.op) \in {"insertAddress", "list", "getAddress", "reload"}
          /\ q.op \in Doing(AfterCustomer(q.op))
      BY <2>2, <2>4 DEF AfterCustomer, Doing, Operations, OnOneAddress, OnOneCustomer
    <3> QED
      BY <1>6, <2>4, <3>1
  <2> QED
    BY <2>1, <2>3, <2>4
<1> QED
  BY <1>2, <1>3, <1>4, <1>5, <1>6 DEF Step

\* The request that takes the step stays well formed.
LEMMA RequestStep ==
    ASSUME TypeOK, RequestInv, RowsInv, NEW r \in Requests, Step(r)
    PROVE  RequestInv'
<1> USE DEF TypeOK
<1> DEFINE q == req[r]
           Held(e) == /\ e \in IF req'[r].op \in OnOneAddress THEN AddressRow ELSE CustomerRow
                      /\ req'[r].op \in {"UpdateCustomer", "UpdateAddress"} => e.deleted = FALSE
<1>1. SUFFICES /\ pc'[r] # "idle" => Shape(req'[r]) /\ req'[r].op \in Doing(pc'[r])
               /\ pc'[r] \in {"reload", "write"} => Held(entity'[r])
               /\ pc'[r] = "write" =>
                     loaded'[r] \in IF req'[r].op \in OnOneAddress THEN AddressRow ELSE CustomerRow
  BY OtherRequests DEF RequestInv, Shape, Changing
<1>2. CASE Receive(r)
  <2>1. PICK i \in Incoming :
             /\ req' = [req EXCEPT ![r] = i]
             /\ \/ pc' = [pc EXCEPT ![r] = Entry(i.op)]
                \/ pc' = [pc EXCEPT ![r] = "respond"]
    BY <1>2 DEF Receive
  <2>2. /\ Shape(i) /\ i.op \in Doing(Entry(i.op))
        /\ Entry(i.op) \in {"insertCustomer", "getCustomer", "list"}
    BY IncomingShape
  <2>3. i.op \in Doing("respond")
    BY <2>2 DEF Shape, Request, Doing
  <2> QED
    BY <2>1, <2>2, <2>3
<1>3. CASE Answer(r)
  BY <1>3 DEF Answer
<1>4. CASE ~Receive(r) /\ ~Answer(r)
  <2>1. pc[r] # "idle" /\ req'[r] = q /\ Shape(q) /\ q.op \in Doing(pc'[r])
    BY <1>4, OwnRequest, NextPoint DEF RequestInv
  <2>2. CASE pc'[r] = "reload"
    <3>1. q.op \in OnOneAddress \/ q.op \in OnOneCustomer
      BY <1>4, <2>2, NextPoint, FoundEntity DEF OnOneAddress
    <3>2. q.op \in OnOneCustomer => q.op \notin OnOneAddress
      BY DEF OnOneCustomer, OnOneAddress
    <3> QED
      BY <1>4, <2>1, <2>2, <3>1, <3>2, NextPoint, FoundEntity
  <2>3. CASE pc'[r] = "write"
    <3>1. Reload(r)
      BY <1>4, <2>3, NextPoint
    <3>2. entity' = entity /\ pc[r] = "reload"
      BY <3>1 DEF Reload
    <3>3. Held(entity'[r]) /\ q.op \in {"UpdateAddress", "DeleteAddress"} \cup OnOneCustomer
      BY <2>1, <3>2 DEF RequestInv, Changing, Doing
    <3>4. loaded'[r] = IF q.op \in OnOneAddress THEN addresses[q.address] ELSE customers[q.customer]
      BY <3>1 DEF Reload
    <3>5. q.op \in OnOneAddress => q.address \in Addresses /\ addresses[q.address] # None
      BY <2>1, <3>2, Fields DEF RowsInv, Changing, OwnAddress
    <3>6. q.op \notin OnOneAddress => q.customer \in Customers /\ customers[q.customer] # None
      BY <2>1, <3>2, <3>3, Fields DEF RowsInv, Changing, OnOneAddress, OnOneCustomer
    <3> QED
      BY <2>1, <2>3, <3>3, <3>4, <3>5, <3>6
  <2>4. CASE pc'[r] \notin {"reload", "write"}
    BY <2>1, <2>4
  <2> QED
    BY <2>2, <2>3, <2>4
<1> QED
  BY <1>2, <1>3, <1>4

-----------------------------------------------------------------------------
(* What a step does to the tables.                                         *)

\* A customer is inserted or updated by the request that names it; an update
\* marks nothing as deleted, and a deletion is noticed by all requests in flight.
LEMMA CustomerChange ==
    ASSUME TypeOK, RequestInv, RowsInv, NEW r \in Requests, Step(r)
    PROVE  \A c \in Customers : customers[c] # None =>
               /\ customers'[c] # None
               /\ ActiveCustomer(c) /\ ~ActiveCustomer(c)' =>
                     \A o \in Requests \ {r} : pc[o] # "idle" => c \in overlapped'[o]
<1> USE DEF TypeOK, tables
<1> DEFINE q == req[r]
           k == q.customer
<1>1. CASE InsertCustomer(r)
  <2>1. k \in Customers /\ q.email \in Emails
    BY <1>1, Fields DEF InsertCustomer, Doing
  <2>2. [email |-> q.email, deleted |-> FALSE] \in CustomerRow
    BY <2>1 DEF CustomerRow
  <2> DEFINE row == [email |-> q.email, deleted |-> FALSE]
  <2>3. row # None /\ row.deleted = FALSE
    BY <2>2, DataAssumption
  <2>4. \/ customers' = customers
        \/ customers' = [customers EXCEPT ![k] = row]
    BY <1>1 DEF InsertCustomer
  <2> HIDE DEF row, k
  <2>5. \A c \in Customers : customers[c] # None => customers'[c] = customers[c] \/ customers'[c] = row
    BY <2>1, <2>4
  <2> QED
    BY <2>3, <2>5 DEF ActiveCustomer
<1>2. CASE UpdateCustomerRow(r)
  <2> DEFINE e == Column("email", customers[k], loaded[r], entity[r])
             d == Column("deleted", customers[k], loaded[r], entity[r])
             row == [email |-> e, deleted |-> d]
  <2>1. /\ k \in Customers /\ customers[k] \in CustomerRow /\ e \in Emails /\ d \in BOOLEAN
        /\ pc[r] = "write"
    BY <1>2, StoredRow DEF UpdateCustomerRow, OnOneCustomer
  <2>2. row \in CustomerRow
    BY <2>1 DEF CustomerRow
  <2>3. ASSUME q.op = "UpdateCustomer"
        PROVE  d => customers[k].deleted
    <3>1. entity[r].deleted = FALSE
      BY <2>1, <2>3 DEF RequestInv, Changing
    <3> QED
      BY <3>1 DEF Column
  <2>4. CASE q.op = "UpdateCustomer"
    <3>1. \/ customers' = customers
          \/ customers' = [customers EXCEPT ![k] = row]
      BY <1>2, <2>4 DEF UpdateCustomerRow
    <3>2. row.deleted => customers[k].deleted
      BY <2>3, <2>4
    <3>3. row # None
      BY <2>2, DataAssumption
    <3> HIDE DEF row, k
    <3>4. /\ \A c \in Customers \ {k} : customers'[c] = customers[c]
          /\ customers'[k] \in {customers[k], row}
      BY <2>1, <3>1
    <3>5. customers'[k] # None /\ (customers'[k].deleted => customers[k].deleted)
      BY <2>1, <3>2, <3>3, <3>4, DataAssumption
    <3>6. \A c \in Customers : ActiveCustomer(c) => ActiveCustomer(c)'
      BY <2>1, <3>4, <3>5 DEF ActiveCustomer
    <3>7. \A c \in Customers : customers[c] # None => customers'[c] # None
      BY <3>4, <3>5
    <3> QED
      BY <3>6, <3>7
  <2>5. CASE q.op = "DeleteCustomer"
    <3>1. customers' = [customers EXCEPT ![k].deleted = TRUE] /\ Overlap(r, k)
      BY <1>2, <2>5 DEF UpdateCustomerRow
    <3>2. [customers[k] EXCEPT !.deleted = TRUE] # None
      BY <2>1, DataAssumption DEF CustomerRow
    <3>3. \A c \in Customers : c # k => customers'[c] = customers[c]
      BY <3>1
    <3>4. \A o \in Requests \ {r} : pc[o] # "idle" => k \in overlapped'[o]
      BY <3>1 DEF Overlap
    <3>5. customers'[k] # None
      BY <2>1, <3>1, <3>2
    <3> QED
      BY <3>3, <3>4, <3>5 DEF ActiveCustomer
  <2> QED
    BY <1>2, <2>4, <2>5 DEF UpdateCustomerRow, OnOneCustomer
<1>3. CASE UNCHANGED customers
  BY <1>3 DEF ActiveCustomer
<1>4. ~InsertCustomer(r) /\ ~UpdateCustomerRow(r) => UNCHANGED customers
  BY DEF Step, Receive, Answer, StatementFails, GetCustomer, GetAddress, List, Reload, InsertAddress,
         UpdateAddressRow, Refresh, Reading
<1> QED
  BY <1>1, <1>2, <1>3, <1>4

Deleted(a) == addresses[a].deleted

\* An address is changed by the request that names it and its customer, never
\* removed or moved; an update marks nothing as deleted, and a deletion is
\* noticed by all requests in flight.
LEMMA AddressChange ==
    ASSUME TypeOK, RequestInv, RowsInv, FreshInv, NEW r \in Requests, Step(r)
    PROVE  /\ \A a \in Addresses : addresses[a] # None =>
                 /\ addresses'[a] # None /\ addresses'[a].owner = addresses[a].owner
                 /\ ~Deleted(a) /\ Deleted(a)' =>
                       \A o \in Requests \ {r} : pc[o] # "idle" => a \in overlapped'[o]
                 /\ addresses'[a] # addresses[a] =>
                       /\ pc'[r] # pc[r] /\ req[r].address = a
                       /\ req[r].customer = addresses[a].owner
           /\ \A a \in Addresses : addresses[a] = None /\ addresses'[a] # None =>
                 pc[r] = "insertAddress" /\ req[r].address = a
<1> USE DEF TypeOK, tables
<1> DEFINE q == req[r]
           b == q.address
<1>1. CASE InsertAddress(r)
  <2>1. b \in Addresses /\ pc[r] = "insertAddress" /\ q.op = "CreateAddress"
    BY <1>1, Fields DEF InsertAddress, Doing
  <2>2. addresses[b] = None
    BY <2>1 DEF FreshInv
  <2>3. \A a \in Addresses : a # b => addresses'[a] = addresses[a]
    BY <1>1 DEF InsertAddress
  <2> QED
    BY <2>1, <2>2, <2>3 DEF Deleted
<1>2. CASE UpdateAddressRow(r)
  <2> DEFINE d == Column("deleted", addresses[b], loaded[r], entity[r])
             row == [addresses[b] EXCEPT !.deleted = d]
  <2>1. b \in Addresses /\ addresses[b] \in AddressRow /\ d \in BOOLEAN /\ pc[r] = "write"
    BY <1>2, StoredRow DEF UpdateAddressRow
  <2>2. q.op \in {"UpdateAddress", "DeleteAddress"} /\ addresses[b].owner = q.customer
    BY <1>2, <2>1, Fields DEF UpdateAddressRow, Doing, OnOneAddress, OnOneCustomer, RowsInv, Changing,
       OwnAddress
  <2>3. addresses' = [addresses EXCEPT ![b] = row]
    BY <1>2 DEF UpdateAddressRow
  <2> HIDE DEF d
  <2>4. row \in AddressRow /\ row.owner = addresses[b].owner /\ row.deleted = d
    BY <2>1 DEF AddressRow
  <2>5. ASSUME q.op = "UpdateAddress"
        PROVE  d = FALSE \/ d = addresses[b].deleted
    <3>1. entity[r].deleted = FALSE
      BY <2>1, <2>5 DEF RequestInv, Changing
    <3> QED
      BY <3>1 DEF Column, d
  <2>6. ASSUME q.op = "DeleteAddress"
        PROVE  \A o \in Requests \ {r} : pc[o] # "idle" => b \in overlapped'[o]
    BY <1>2, <2>6 DEF UpdateAddressRow, Overlap
  <2>7. pc'[r] # pc[r]
    BY <1>2, <2>1 DEF UpdateAddressRow, Goto
  <2>8. \A a \in Addresses : a # b => addresses'[a] = addresses[a]
    BY <2>3
  <2>9. addresses'[b] = row /\ row # None
    BY <2>1, <2>3, <2>4, DataAssumption
  <2> HIDE DEF row, b
  <2>10. addresses'[b] # None /\ addresses'[b].owner = addresses[b].owner
    BY <2>4, <2>9
  <2>11. ASSUME q.op = "UpdateAddress", addresses'[b].deleted
         PROVE  Deleted(b)
    <3>1. addresses'[b].deleted = FALSE \/ addresses'[b].deleted = addresses[b].deleted
      BY <2>4, <2>5, <2>9, <2>11
    <3> QED
      BY <2>11, <3>1 DEF Deleted
  <2>12. ~Deleted(b) /\ addresses'[b].deleted => \A o \in Requests \ {r} : pc[o] # "idle" => b \in overlapped'[o]
    BY <2>2, <2>6, <2>11
  <2>13. \A a \in Addresses \ {b} : Deleted(a)' => Deleted(a)
    BY <2>8 DEF Deleted
  <2>14. \A a \in Addresses : addresses[a] # None => addresses'[a] # None /\ addresses'[a].owner = addresses[a].owner
    BY <2>8, <2>10
  <2>15. \A a \in Addresses : ~Deleted(a) /\ Deleted(a)' =>
             \A o \in Requests \ {r} : pc[o] # "idle" => a \in overlapped'[o]
    BY <2>12, <2>13 DEF Deleted
  <2>16. \A a \in Addresses : addresses'[a] # addresses[a] =>
             pc'[r] # pc[r] /\ b = a /\ q.customer = addresses[a].owner /\ addresses[a] # None
    BY <2>1, <2>2, <2>7, <2>8, DataAssumption
  <2> QED
    BY <2>14, <2>15, <2>16, DataAssumption DEF b
<1>3. CASE UNCHANGED addresses
  BY <1>3 DEF Deleted
<1>4. ~InsertAddress(r) /\ ~UpdateAddressRow(r) => UNCHANGED addresses
  BY DEF Step, Receive, Answer, StatementFails, GetCustomer, GetAddress, List, Reload, InsertCustomer,
         UpdateCustomerRow, Refresh, Reading
<1> QED
  BY <1>1, <1>2, <1>3, <1>4

-----------------------------------------------------------------------------
(* The strengthening is kept.                                              *)

\* What r's next point says of the rows it found: the lookup found them in this
\* very step, or an earlier one did.
LEMMA Lookup ==
    ASSUME TypeOK, RequestInv, NEW r \in Requests, Step(r),
           pc'[r] \in {"getAddress", "insertAddress", "reload", "write"}
    PROVE  /\ UNCHANGED <<tables, overlapped>> /\ req'[r] = req[r] /\ pc[r] # "idle"
           /\ FoundCustomer(req[r]) \/ pc[r] \in {"getAddress", "reload"}
           /\ pc'[r] \in {"reload", "write"} =>
                 /\ pc[r] = "reload" \/ pc'[r] = "reload"
                 /\ pc[r] # "reload" /\ req[r].op \in OnOneAddress => FoundAddress(req[r])
                 /\ pc[r] # "reload" /\ req[r].op \in OnOneCustomer => FoundCustomer(req[r])
<1>1. ~Receive(r) /\ ~Answer(r)
  BY IncomingShape DEF Receive, Answer, TypeOK
<1>2. req'[r] = req[r] /\ pc[r] # "idle"
  BY <1>1, OwnRequest
<1>3. \/ Reload(r) /\ pc'[r] = "write"
      \/ GetCustomer(r) /\ pc'[r] # "write"
      \/ GetAddress(r) /\ pc'[r] = "reload"
  <2>1. pc'[r] = "write" => Reload(r)
    BY <1>1, NextPoint
  <2>2. pc'[r] = "reload" => GetCustomer(r) \/ GetAddress(r)
    BY <1>1, NextPoint
  <2>3. pc'[r] \in {"getAddress", "insertAddress"} => GetCustomer(r)
    BY <1>1, NextPoint
  <2> QED
    BY <2>1, <2>2, <2>3
<1>4. CASE Reload(r) /\ pc'[r] = "write"
  BY <1>2, <1>4 DEF Reload, Reading, tables
<1>5. CASE GetCustomer(r) /\ pc'[r] # "write"
  <2>1. FoundCustomer(req[r]) /\ pc[r] = "getCustomer" /\ UNCHANGED <<tables, overlapped>>
    BY <1>5 DEF GetCustomer, Reply, Reading, TypeOK, tables
  <2>2. pc'[r] = "reload" /\ req[r].op \in OnOneAddress => FoundAddress(req[r])
    BY <1>5, FoundEntity
  <2> QED
    BY <1>2, <1>5, <2>1, <2>2
<1>6. CASE GetAddress(r) /\ pc'[r] = "reload"
  <2>1. pc[r] = "getAddress" /\ UNCHANGED <<tables, overlapped>>
    BY <1>6 DEF GetAddress, Reading, tables
  <2>2. /\ req[r].op \in OnOneAddress => FoundAddress(req[r])
        /\ req[r].op \in OnOneCustomer => FoundCustomer(req[r])
    BY <1>6, FoundEntity
  <2> QED
    BY <1>2, <1>6, <2>1, <2>2
<1> QED
  BY <1>3, <1>4, <1>5, <1>6

\* Found rows stay: nothing is removed and no address is moved.
LEMMA RowsStep ==
    ASSUME TypeOK, RequestInv, RowsInv, FreshInv, NEW r \in Requests, Step(r)
    PROVE  RowsInv'
<1>1. SUFFICES ASSUME NEW o \in Requests, pc'[o] \in {"reload", "write"}
               PROVE  /\ req'[o].op \in OnOneCustomer => customers'[req'[o].customer] # None
                      /\ req'[o].op \in OnOneAddress => OwnAddress(req[o])'
  BY DEF RowsInv, Changing
<1>2. /\ req'[o] = req[o] /\ pc[o] # "idle"
      /\ req[o].op \in OnOneCustomer => customers[req[o].customer] # None
      /\ req[o].op \in OnOneAddress => OwnAddress(req[o])
  <2>1. CASE o # r
    BY <1>1, <2>1, OtherRequests DEF RowsInv, Changing
  <2>2. CASE o = r
    BY <1>1, <2>2, Lookup DEF RowsInv, Changing, FoundCustomer, ActiveCustomer, FoundAddress
  <2> QED
    BY <2>1, <2>2
<1>3. /\ req[o].op \in OnOneCustomer => req[o].customer \in Customers
      /\ req[o].op \in OnOneAddress => req[o].address \in Addresses
  BY <1>2, Fields DEF OnOneCustomer
<1>4. req[o].op \in OnOneCustomer => customers'[req[o].customer] # None
  BY <1>2, <1>3, CustomerChange
<1>5. req[o].op \in OnOneAddress =>
          /\ addresses'[req[o].address] # None
          /\ addresses'[req[o].address].owner = addresses[req[o].address].owner
  BY <1>2, <1>3, AddressChange DEF OwnAddress
<1> QED
  BY <1>2, <1>4, <1>5 DEF OwnAddress

\* No id is given to two addresses.
LEMMA FreshStep ==
    ASSUME TypeOK, RequestInv, RowsInv, FreshInv, NEW r \in Requests, Step(r)
    PROVE  FreshInv'
<1> USE DEF TypeOK
<1> DEFINE Awaits(o) == req[o].op = "CreateAddress" /\ pc[o] \in {"getCustomer", "insertAddress"}
           Asks(i, a) == i.op = "CreateAddress" /\ i.address = a
<1>1. SUFFICES ASSUME NEW o \in Requests, Awaits(o)'
               PROVE  /\ addresses'[req'[o].address] = None
                      /\ \A p \in Requests \ {o} : ~Asks(req'[p], req'[o].address)
  BY DEF FreshInv
<1>2. CASE Receive(r)
  <2>1. PICK i \in Incoming : req' = [req EXCEPT ![r] = i]
    BY <1>2 DEF Receive
  <2>2. i.op = "CreateAddress" =>
            /\ addresses[i.address] = None
            /\ \A p \in Requests : req[p].op = "CreateAddress" => req[p].address # i.address
    BY IncomingShape
  <2>3. addresses' = addresses
    BY <1>2 DEF Receive, tables
  <2>4. CASE o = r
    BY <1>1, <2>1, <2>2, <2>3, <2>4
  <2>5. CASE o # r
    <3>1. Awaits(o) /\ req'[o] = req[o]
      BY <1>1, <2>5, OtherRequests
    <3>2. /\ addresses[req[o].address] = None
          /\ \A p \in Requests \ {o} : ~Asks(req[p], req[o].address)
      BY <3>1 DEF FreshInv
    <3>3. ~Asks(i, req[o].address)
      BY <2>2, <3>1
    <3>4. \A p \in Requests : req'[p] = IF p = r THEN i ELSE req[p]
      BY <2>1
    <3> HIDE DEF Asks
    <3> QED
      BY <2>3, <3>1, <3>2, <3>3, <3>4
  <2> QED
    BY <2>4, <2>5
<1>3. CASE ~Receive(r)
  <2>1. \A p \in Requests : req'[p] = req[p] \/ req'[p] = NoRequest
    <3>1. CASE Answer(r)
      BY <3>1 DEF Answer
    <3> QED
      BY <1>3, <3>1, OwnRequest
  <2>2. req'[o] = req[o] /\ Awaits(o)
    <3>1. CASE o # r
      BY <1>1, <3>1, OtherRequests
    <3>2. CASE o = r
      <4>1. ~Answer(r)
        BY <1>1, <3>2 DEF Answer
      <4>2. pc'[r] = "insertAddress" /\ GetCustomer(r)
        BY <1>1, <1>3, <3>2, <4>1, NextPoint
      <4> QED
        BY <1>1, <1>3, <3>2, <4>1, <4>2, OwnRequest DEF GetCustomer
    <3> QED
      BY <3>1, <3>2
  <2>3. /\ addresses[req[o].address] = None
        /\ \A p \in Requests \ {o} : ~Asks(req[p], req[o].address)
    BY <2>2 DEF FreshInv
  <2>4. \A p \in Requests \ {o} : ~Asks(req'[p], req'[o].address)
    BY <2>1, <2>2, <2>3 DEF NoRequest
  <2>5. req[o].address \in Addresses
    BY <2>2, Fields
  <2>6. addresses'[req[o].address] = None
    <3>1. SUFFICES ASSUME addresses'[req[o].address] # None
                   PROVE  FALSE
      OBVIOUS
    <3>2. pc[r] = "insertAddress" /\ req[r].address = req[o].address
      BY <2>3, <2>5, <3>1, AddressChange
    <3>3. r # o
      <4>1. r = o => pc'[r] \in {"getCustomer", "insertAddress"}
        BY <1>1
      <4>2. ~Answer(r)
        BY <3>2 DEF Answer
      <4>3. r = o => GetCustomer(r)
        BY <1>3, <4>1, <4>2, NextPoint
      <4> QED
        BY <3>2, <4>3 DEF GetCustomer
    <3>4. req[r].op = "CreateAddress"
      BY <3>2, Fields DEF Doing
    <3> QED
      BY <2>3, <3>2, <3>3, <3>4
  <2> QED
    BY <2>2, <2>4, <2>6
<1> QED
  BY <1>2, <1>3

\* What a request has found is deleted only under its eyes.
LEMMA SeenStep ==
    ASSUME TypeOK, RequestInv, RowsInv, FreshInv, SeenInv, NEW r \in Requests, Step(r)
    PROVE  SeenInv'
<1> DEFINE SeenCustomer(o) == ActiveCustomer(req[o].customer) \/ req[o].customer \in overlapped[o]
           SeenAddress(o)  == FoundAddress(req[o]) \/ req[o].address \in overlapped[o]
<1>1. SUFFICES ASSUME NEW o \in Requests, pc'[o] \in {"getAddress", "insertAddress", "reload", "write"}
               PROVE  /\ SeenCustomer(o)'
                      /\ pc'[o] \in {"reload", "write"} /\ req'[o].op \in OnOneAddress => SeenAddress(o)'
  BY DEF SeenInv, Changing
<1>2. CASE o = r
  <2>1. UNCHANGED <<tables, overlapped>> /\ req'[r] = req[r]
    BY <1>1, <1>2, Lookup
  <2>2. SeenCustomer(r)
    BY <1>1, <1>2, Lookup DEF SeenInv, FoundCustomer
  <2>3. pc'[r] \in {"reload", "write"} /\ req[r].op \in OnOneAddress => SeenAddress(r)
    BY <1>1, <1>2, Lookup DEF SeenInv, Changing
  <2> QED
    BY <1>2, <2>1, <2>2, <2>3 DEF ActiveCustomer, FoundAddress, OwnAddress, tables
<1>3. CASE o # r
  <2> DEFINE q == req[o]
  <2>1. pc[o] = pc'[o] /\ req'[o] = q /\ overlapped[o] \subseteq overlapped'[o]
    BY <1>3, OtherRequests
  <2>2. /\ q.customer \in Customers
        /\ q.op \in OnOneAddress => q.address \in Addresses
    BY <1>1, <2>1, Fields DEF Doing, OnOneAddress, OnOneCustomer
  <2>3. ActiveCustomer(q.customer) => ActiveCustomer(q.customer)' \/ q.customer \in overlapped'[o]
    <3>1. SUFFICES ASSUME NEW c \in Customers, ActiveCustomer(c), ~ActiveCustomer(c)'
                   PROVE  c \in overlapped'[o]
      BY <2>1, <2>2 DEF ActiveCustomer
    <3>2. customers[c] # None
      BY <3>1 DEF ActiveCustomer
    <3> QED
      BY <1>1, <1>3, <2>1, <3>1, <3>2, CustomerChange
  <2>4. ASSUME q.op \in OnOneAddress, FoundAddress(q)
        PROVE  FoundAddress(q)' \/ q.address \in overlapped'[o]
    <3> DEFINE a == q.address
    <3>1. a \in Addresses /\ addresses[a] # None /\ addresses[a].owner = q.customer /\ ~Deleted(a)
      BY <2>2, <2>4 DEF FoundAddress, OwnAddress, Deleted
    <3>2. addresses'[a] # None /\ addresses'[a].owner = q.customer
      BY <3>1, AddressChange
    <3>3. addresses'[a].deleted => a \in overlapped'[o]
      <4>1. \A x \in Addresses : addresses[x] # None /\ ~Deleted(x) /\ addresses'[x].deleted =>
                x \in overlapped'[o]
        BY <1>1, <1>3, <2>1, AddressChange DEF Deleted
      <4> QED
        BY <3>1, <4>1
    <3> QED
      BY <2>1, <3>2, <3>3 DEF FoundAddress, OwnAddress
  <2>5. SeenCustomer(o)
    BY <1>1, <2>1 DEF SeenInv
  <2>6. pc[o] \in {"reload", "write"} /\ q.op \in OnOneAddress => SeenAddress(o)
    BY DEF SeenInv, Changing
  <2> QED
    BY <2>1, <2>3, <2>4, <2>5, <2>6
<1> QED
  BY <1>2, <1>3

\* A request writes in the step before it reads its row back, and at no other.
LEMMA AnswerStep ==
    ASSUME TypeOK, RequestInv, AnswerInv, NEW r \in Requests, Step(r)
    PROVE  AnswerInv'
<1> USE DEF TypeOK
<1> DEFINE Reads == {"GetCustomer", "ListCustomers", "GetAddress", "ListAddresses"}
           Told(o) == /\ pc[o] = "respond" =>
                            /\ wrote[o] => code[o] \in {"OK", "INTERNAL"}
                            /\ code[o] = "OK" => wrote[o] \/ req[o].op \in Reads
                      /\ wrote[o] => pc[o] \in {"refresh", "respond"}
                      /\ pc[o] = "refresh" => wrote[o]
<1>1. \A o \in Requests : Told(o)
  BY DEF AnswerInv, AnswerTellsEffect
<1>2. \A o \in Requests \ {r} : Told(o)'
  BY <1>1, OtherRequests
<1>3. Told(r)'
  <2>1. CASE Receive(r)
    <3>1. PICK i \in Incoming :
               \/ pc' = [pc EXCEPT ![r] = Entry(i.op)]
               \/ pc' = [pc EXCEPT ![r] = "respond"] /\ code' = [code EXCEPT ![r] = "VALIDATION"]
      BY <2>1 DEF Receive
    <3>2. Entry(i.op) \in {"insertCustomer", "getCustomer", "list"}
      BY IncomingShape
    <3>3. wrote'[r] = FALSE
      BY <1>1, <2>1 DEF Receive
    <3> QED
      BY <3>1, <3>2, <3>3
  <2>2. CASE Answer(r)
    BY <2>2 DEF Answer
  <2>3. CASE StatementFails(r)
    BY <1>1, <2>3 DEF StatementFails, Reply, FailureCode
  <2>4. CASE Refresh(r)
    BY <1>1, <2>4 DEF Refresh, Reply, Reading
  <2>5. CASE List(r)
    <3>1. req[r].op \in Reads /\ wrote[r] = FALSE
      BY <1>1, <2>5, Fields DEF List, Doing
    <3> QED
      BY <2>5, <3>1 DEF List, Reply, Reading
  <2>6. CASE Reload(r) \/ GetCustomer(r) \/ GetAddress(r)
    <3>1. wrote'[r] = FALSE
      BY <1>1, <2>6 DEF Reload, GetCustomer, GetAddress, Reading
    <3>2. req'[r] = req[r] /\ pc'[r] # "refresh"
      <4>1. AfterCustomer(req[r].op) # "refresh"
        BY DEF AfterCustomer
      <4> QED
        BY <2>6, <4>1 DEF Reload, GetCustomer, GetAddress, Goto, Reply
    <3>3. pc'[r] = "respond" /\ code'[r] = "OK" => req[r].op \in {"GetCustomer", "GetAddress"}
      <4>1. AfterCustomer(req[r].op) # "respond"
        BY DEF AfterCustomer
      <4> QED
        BY <2>6, <4>1 DEF Reload, GetCustomer, GetAddress, Goto, Reply
    <3> QED
      BY <3>1, <3>2, <3>3
  <2>7. CASE InsertCustomer(r) \/ InsertAddress(r) \/ UpdateCustomerRow(r) \/ UpdateAddressRow(r)
    <3>1. \/ pc'[r] = "refresh" /\ wrote'[r]
          \/ pc'[r] = "respond" /\ code'[r] = "EMAIL_EXISTS" /\ wrote'[r] = wrote[r]
      BY <2>7 DEF InsertCustomer, InsertAddress, UpdateCustomerRow, UpdateAddressRow, EmailConflict,
                  Committed, Goto, Reply
    <3>2. wrote[r] = FALSE
      BY <1>1, <2>7 DEF InsertCustomer, InsertAddress, UpdateCustomerRow, UpdateAddressRow
    <3> QED
      BY <3>1, <3>2
  <2> QED
    BY <2>1, <2>2, <2>3, <2>4, <2>5, <2>6, <2>7 DEF Step
<1> QED
  BY <1>2, <1>3 DEF AnswerInv, AnswerTellsEffect

\* The constraint is checked where an e-mail is stored, and only there.
LEMMA EmailsStep ==
    ASSUME TypeOK, RequestInv, RowsInv, UniqueEmails, NEW r \in Requests, Step(r)
    PROVE  UniqueEmails'
<1> USE DEF TypeOK
<1> DEFINE k == req[r].customer
<1>1. ASSUME NEW e, NEW row, k \in Customers, EmailFree(k, e), row.email = e,
             customers' = [customers EXCEPT ![k] = row]
      PROVE  UniqueEmails'
  <2>1. \A c \in Customers \ {k} : customers'[c] = customers[c]
    BY <1>1
  <2>2. customers'[k].email = e
    BY <1>1
  <2>3. \A c \in Customers \ {k} : customers'[c] # None => customers'[c].email # e
    BY <1>1, <2>1 DEF EmailFree
  <2> HIDE DEF k
  <2> SUFFICES ASSUME NEW c \in Customers, NEW d \in Customers, c # d,
                      customers'[c] # None, customers'[d] # None
               PROVE  customers'[c].email # customers'[d].email
    BY DEF UniqueEmails
  <2>4. CASE c # k /\ d # k
    BY <2>1, <2>4 DEF UniqueEmails
  <2> QED
    BY <2>2, <2>3, <2>4
<1>2. CASE InsertCustomer(r)
  <2>1. k \in Customers
    BY <1>2, Fields DEF InsertCustomer, Doing
  <2>2. CASE customers' = customers
    BY <2>2 DEF UniqueEmails
  <2>3. CASE customers' # customers
    <3>1. /\ EmailFree(k, req[r].email)
          /\ customers' = [customers EXCEPT ![k] = [email |-> req[r].email, deleted |-> FALSE]]
      BY <1>2, <2>3 DEF InsertCustomer
    <3> QED
      BY <1>1, <2>1, <3>1
  <2> QED
    BY <2>2, <2>3
<1>3. CASE UpdateCustomerRow(r)
  <2> DEFINE row == [email   |-> Column("email", customers[k], loaded[r], entity[r]),
                     deleted |-> Column("deleted", customers[k], loaded[r], entity[r])]
  <2>1. k \in Customers /\ customers[k] \in CustomerRow
    BY <1>3, StoredRow DEF UpdateCustomerRow, OnOneCustomer
  <2>2. CASE UNCHANGED customers
    BY <2>2 DEF UniqueEmails
  <2>3. CASE EmailFree(k, row.email) /\ customers' = [customers EXCEPT ![k] = row]
    BY <1>1, <2>1, <2>3
  <2>4. CASE customers' = [customers EXCEPT ![k].deleted = TRUE]
    <3>1. /\ \A c \in Customers \ {k} : customers'[c] = customers[c]
          /\ customers'[k].email = customers[k].email /\ customers[k] # None
      BY <2>1, <2>4, DataAssumption DEF CustomerRow
    <3> HIDE DEF k
    <3>2. \A c \in Customers : customers'[c] # None =>
              customers[c] # None /\ customers'[c].email = customers[c].email
      BY <3>1
    <3> QED
      BY <3>2 DEF UniqueEmails
  <2> QED
    BY <1>3, <2>2, <2>3, <2>4 DEF UpdateCustomerRow
<1>4. CASE UNCHANGED customers
  BY <1>4 DEF UniqueEmails
<1>5. ~InsertCustomer(r) /\ ~UpdateCustomerRow(r) => UNCHANGED customers
  BY DEF Step, Receive, Answer, StatementFails, GetCustomer, GetAddress, List, Reload, InsertAddress,
         UpdateAddressRow, Refresh, Reading, tables
<1> QED
  BY <1>2, <1>3, <1>4, <1>5

-----------------------------------------------------------------------------
(* The theorems.                                                           *)

LEMMA InitInv == Init => SubagentInv
<1> SUFFICES ASSUME Init PROVE SubagentInv
  OBVIOUS
<1> USE DEF Init
<1>1. TypeOK
  BY DataAssumption DEF TypeOK, Points, Codes
<1>2. RequestInv /\ RowsInv /\ SeenInv
  BY DEF RequestInv, RowsInv, SeenInv, Changing
<1>3. FreshInv /\ AnswerInv /\ UniqueEmails
  BY DEF FreshInv, AnswerInv, AnswerTellsEffect, UniqueEmails
<1> QED
  BY <1>1, <1>2, <1>3 DEF SubagentInv

LEMMA StepInv == SubagentInv /\ [Next]_vars => SubagentInv'
<1> SUFFICES ASSUME SubagentInv, [Next]_vars PROVE SubagentInv'
  OBVIOUS
<1>1. ASSUME NEW r \in Requests, Step(r)
      PROVE  SubagentInv'
  BY <1>1, TypeStep, RequestStep, RowsStep, FreshStep, SeenStep, AnswerStep, EmailsStep DEF SubagentInv
<1>2. CASE UNCHANGED vars
  <2> USE <1>2 DEF vars, tables
  <2>1. TypeOK' /\ RequestInv' /\ UniqueEmails'
    BY DEF SubagentInv, TypeOK, RequestInv, Changing, UniqueEmails
  <2>2. RowsInv' /\ FreshInv'
    BY DEF SubagentInv, RowsInv, Changing, OwnAddress, FreshInv
  <2>3. SeenInv'
    BY DEF SubagentInv, SeenInv, Changing, ActiveCustomer, FoundAddress, OwnAddress
  <2>4. AnswerInv'
    BY DEF SubagentInv, AnswerInv, AnswerTellsEffect
  <2> QED
    BY <2>1, <2>2, <2>3, <2>4 DEF SubagentInv
<1> QED
  BY <1>1, <1>2 DEF Next, Step

\* The strengthening holds in every reachable state.
THEOREM SubagentCorrect == Spec => []SubagentInv
BY InitInv, StepInv, PTL DEF Spec

\* Variables keep their types: in particular a step answers with a code that
\* the handlers know, and stores rows with an e-mail and an owner.
THEOREM SubagentTypes == Spec => []TypeOK
<1>1. SubagentInv => TypeOK
  BY DEF SubagentInv
<1> QED
  BY <1>1, SubagentCorrect, PTL

\* No two customers ever share an e-mail, whatever patches race.
THEOREM EmailsUnique == Spec => []UniqueEmails
<1>1. SubagentInv => UniqueEmails
  BY DEF SubagentInv
<1> QED
  BY <1>1, SubagentCorrect, PTL

\* A refusal means that nothing was written, a success that it was.
THEOREM SubagentAnswers == Spec => []AnswerTellsEffect
<1>1. SubagentInv => AnswerTellsEffect
  BY DEF SubagentInv, AnswerInv
<1> QED
  BY <1>1, SubagentCorrect, PTL

\* No request reaches an address of another customer.
THEOREM AddressesIsolated == Spec => Isolation
<1> DEFINE Isolated ==
        \A a \in Addresses : addresses[a] # None /\ addresses'[a] # addresses[a] =>
            /\ addresses'[a] # None /\ addresses'[a].owner = addresses[a].owner
            /\ \E r \in Requests :
                  /\ pc[r] # pc'[r] /\ req[r].address = a
                  /\ req[r].customer = addresses[a].owner
<1>1. SubagentInv /\ [Next]_vars => [Isolated]_vars
  <2> SUFFICES ASSUME SubagentInv, NEW r \in Requests, Step(r)
               PROVE  Isolated
    BY DEF Next, Step
  <2> QED
    BY AddressChange DEF SubagentInv
<1> QED
  BY <1>1, SubagentCorrect, PTL DEF Spec, Isolation

\* A request that begins after a deletion never writes to what was deleted.
THEOREM DeletionsSeen == Spec => DeletionsAreSeen
<1> DEFINE Seen ==
        \A r \in Requests : Written(r) /\ req[r].op # "CreateCustomer" =>
            /\ ActiveCustomer(req[r].customer) \/ req[r].customer \in overlapped[r]
            /\ req[r].op \in OnOneAddress => FoundAddress(req[r]) \/ req[r].address \in overlapped[r]
<1>1. SubagentInv /\ [Next]_vars => [Seen]_vars
  <2> SUFFICES ASSUME SubagentInv, NEW r \in Requests, Step(r),
                      NEW o \in Requests, Written(o), req[o].op # "CreateCustomer"
               PROVE  /\ ActiveCustomer(req[o].customer) \/ req[o].customer \in overlapped[o]
                      /\ req[o].op \in OnOneAddress =>
                            FoundAddress(req[o]) \/ req[o].address \in overlapped[o]
    BY DEF Next, Step
  <2> USE DEF SubagentInv
  <2>1. o = r
    BY OtherRequests DEF Written
  <2>2. InsertCustomer(r) \/ InsertAddress(r) \/ UpdateCustomerRow(r) \/ UpdateAddressRow(r)
    BY <2>1 DEF Step, Written, TypeOK, Receive, Answer, StatementFails, GetCustomer, GetAddress, List,
                Reload, Refresh, Reading
  <2>3. pc[r] \in {"insertAddress", "write"}
    <3>1. ~InsertCustomer(r)
      BY <2>1, Fields DEF InsertCustomer, Doing
    <3> QED
      BY <2>2, <3>1 DEF InsertAddress, UpdateCustomerRow, UpdateAddressRow
  <2>4. pc[r] = "insertAddress" => req[r].op \notin OnOneAddress
    BY Fields DEF Doing, OnOneAddress
  <2> QED
    BY <2>1, <2>3, <2>4 DEF SeenInv, Changing
<1> QED
  BY <1>1, SubagentCorrect, PTL DEF Spec, DeletionsAreSeen, Written
=============================================================================
