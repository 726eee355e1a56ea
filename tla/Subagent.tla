------------------------------ MODULE Subagent ------------------------------
(***************************************************************************)
(* customer-subagent: customers with a unique e-mail, their addresses, and *)
(* deletions that set deleted_at.                                          *)
(*                                                                         *)
(* A request has one session.  A repository reads with SELECTs and writes  *)
(* with one INSERT or UPDATE that it commits at once; a write and its      *)
(* commit are one step, because another transaction either waits for the   *)
(* commit or sees what was there before.  (Two updates that exchange       *)
(* e-mails may wait for each other; PostgreSQL ends one of them, which is  *)
(* one of the failures below.)                                             *)
(*                                                                         *)
(* Of a row the e-mail, the owner and whether deleted_at is set are kept;  *)
(* no property tells names, ages, texts or timestamps apart.               *)
(***************************************************************************)
EXTENDS Integers, FiniteSets

CONSTANTS
    Customers,   \* values of the sequence of customers.id
    Addresses,   \* values of the sequence of addresses.id
    Emails,
    Requests,    \* request threads
    None,
    MaxFailures  \* bound: how many statements the database fails

CustomerRow == [email : Emails, deleted : BOOLEAN]
AddressRow  == [owner : Customers, deleted : BOOLEAN]

Operations == {"CreateCustomer", "UpdateCustomer", "DeleteCustomer", "GetCustomer",
               "ListCustomers", "CreateAddress", "UpdateAddress", "DeleteAddress",
               "GetAddress", "ListAddresses"}

OnOneAddress == {"UpdateAddress", "DeleteAddress", "GetAddress"}

\* valid: the fields of the body pass the validation of the entity, which runs
\* after the lookups.
Request == [op : Operations, customer : Customers \cup {None}, address : Addresses \cup {None},
            email : Emails \cup {None}, valid : BOOLEAN]

NoRequest == [op |-> "None", customer |-> None, address |-> None, email |-> None, valid |-> TRUE]

Codes == {"NONE", "OK", "VALIDATION", "CUSTOMER_NOT_FOUND", "ADDRESS_NOT_FOUND",
          "EMAIL_EXISTS", "INTERNAL"}

Points == {"idle", "insertCustomer", "getCustomer", "getAddress", "insertAddress", "reload",
           "write", "refresh", "list", "respond"}

ASSUME DataAssumption ==
    /\ None \notin CustomerRow \cup AddressRow
    /\ None \notin Customers \cup Addresses \cup Emails
    /\ MaxFailures \in Nat

VARIABLES
    customers,   \* rows of table customers
    addresses,   \* rows of table addresses
    pc,          \* the next statement of the request
    req,         \* what the client asked for, and the id the sequence will give
    entity,      \* the domain object get_by_id returned, as modified
    loaded,      \* the row _get_model_or_raise read again
    code,        \* how the request is answered
    wrote,       \* history: the request committed a change
    overlapped,  \* history: a deletion committed while the request was in flight
    failures     \* database failures so far

tables == <<customers, addresses>>
vars == <<tables, pc, req, entity, loaded, code, wrote, overlapped, failures>>

TypeOK ==
    /\ customers \in [Customers -> CustomerRow \cup {None}]
    /\ addresses \in [Addresses -> AddressRow \cup {None}]
    /\ pc \in [Requests -> Points]
    /\ req \in [Requests -> Request \cup {NoRequest}]
    /\ entity \in [Requests -> CustomerRow \cup AddressRow \cup {None}]
    /\ loaded \in [Requests -> CustomerRow \cup AddressRow \cup {None}]
    /\ code \in [Requests -> Codes]
    /\ wrote \in [Requests -> BOOLEAN]
    /\ overlapped \in [Requests -> SUBSET (Customers \cup Addresses)]
    /\ failures \in 0..MaxFailures

Init ==
    /\ customers = [c \in Customers |-> None]
    /\ addresses = [a \in Addresses |-> None]
    /\ pc = [r \in Requests |-> "idle"]
    /\ req = [r \in Requests |-> NoRequest]
    /\ entity = [r \in Requests |-> None]
    /\ loaded = [r \in Requests |-> None]
    /\ code = [r \in Requests |-> "NONE"]
    /\ wrote = [r \in Requests |-> FALSE]
    /\ overlapped = [r \in Requests |-> {}]
    /\ failures = 0

-----------------------------------------------------------------------------
(* What clients ask for.                                                   *)

Creating(op, key) == {req[r][key] : r \in {q \in Requests : req[q].op = op}}

FreshCustomers == {c \in Customers : customers[c] = None} \ Creating("CreateCustomer", "customer")

FreshAddresses == {a \in Addresses : addresses[a] = None} \ Creating("CreateAddress", "address")

Incoming ==
    [op : {"CreateCustomer"}, customer : FreshCustomers, address : {None}, email : Emails,
     valid : {TRUE}]
    \cup [op : {"UpdateCustomer"}, customer : Customers, address : {None},
          email : Emails \cup {None}, valid : BOOLEAN]
    \cup [op : {"DeleteCustomer", "GetCustomer", "ListAddresses"}, customer : Customers,
          address : {None}, email : {None}, valid : {TRUE}]
    \cup [op : {"ListCustomers"}, customer : {None}, address : {None}, email : {None}, valid : {TRUE}]
    \cup [op : {"CreateAddress"}, customer : Customers, address : FreshAddresses,
          email : {None}, valid : BOOLEAN]
    \cup [op : {"UpdateAddress"}, customer : Customers, address : Addresses,
          email : {None}, valid : BOOLEAN]
    \cup [op : {"DeleteAddress", "GetAddress"}, customer : Customers, address : Addresses,
          email : {None}, valid : {TRUE}]

Entry(op) ==
    CASE op = "CreateCustomer" -> "insertCustomer"
      [] op = "ListCustomers"  -> "list"
      [] OTHER                 -> "getCustomer"

HasBody == {"CreateCustomer", "UpdateCustomer", "CreateAddress", "UpdateAddress"}

\* The parsers refuse a body that is no object, lacks a field or has an id that
\* is no integer; the use cases refuse an id other than the one in the URL and
\* an empty patch, and Customer() refuses a field of a new customer, all of
\* them before the first statement.
Receive(r) ==
    /\ pc[r] = "idle"
    /\ \E q \in Incoming :
          /\ req' = [req EXCEPT ![r] = q]
          /\ \/ /\ pc' = [pc EXCEPT ![r] = Entry(q.op)]
                /\ UNCHANGED code
             \/ /\ q.op \in HasBody
                /\ pc' = [pc EXCEPT ![r] = "respond"]
                /\ code' = [code EXCEPT ![r] = "VALIDATION"]
    /\ UNCHANGED <<tables, entity, loaded, wrote, overlapped, failures>>

-----------------------------------------------------------------------------
(* A statement ends in the next one or in an answer.                       *)

Goto(r, p) == pc' = [pc EXCEPT ![r] = p] /\ UNCHANGED <<req, code>>

Reply(r, c) ==
    /\ pc' = [pc EXCEPT ![r] = "respond"]
    /\ code' = [code EXCEPT ![r] = c]
    /\ UNCHANGED req

Reading == UNCHANGED <<tables, wrote, overlapped, failures>>

Forget(r) ==
    /\ entity' = [entity EXCEPT ![r] = None]
    /\ loaded' = [loaded EXCEPT ![r] = None]

-----------------------------------------------------------------------------
(* Lookups.                                                                *)

ActiveCustomer(c) == customers[c] # None /\ ~customers[c].deleted

MutAnyOwner(q) == addresses[q.address] # None

\* _find_model: both ids are in the WHERE clause.
OwnAddress(q) == addresses[q.address] # None /\ addresses[q.address].owner = q.customer

MutSeesDeleted(q) == customers[q.customer] # None

\* get_by_id of the use cases.  DeleteCustomer looks at deleted rows as well,
\* but its mark_deleted refuses them with the same answer.
FoundCustomer(q) == ActiveCustomer(q.customer)

FoundAddress(q) == OwnAddress(q) /\ ~addresses[q.address].deleted

AfterCustomer(op) ==
    CASE op = "CreateAddress"  -> "insertAddress"
      [] op = "ListAddresses"  -> "list"
      [] op \in OnOneAddress   -> "getAddress"
      [] OTHER                 -> "reload"

MutModified(row, q) ==
    IF q.op = "DeleteCustomer" THEN [row EXCEPT !.deleted = TRUE] ELSE [row EXCEPT !.email = q.email]

\* mark_deleted, or the e-mail of a patch if it has one.
Modified(row, q) ==
    CASE q.op = "DeleteCustomer"                       -> [row EXCEPT !.deleted = TRUE]
      [] q.op = "UpdateCustomer" /\ q.email # None     -> [row EXCEPT !.email = q.email]
      [] OTHER                                         -> row

GetCustomer(r) ==
    LET q == req[r] IN
    /\ pc[r] = "getCustomer"
    /\ \/ ~FoundCustomer(q) /\ Reply(r, "CUSTOMER_NOT_FOUND") /\ UNCHANGED entity
       \/ FoundCustomer(q) /\ q.op = "GetCustomer" /\ Reply(r, "OK") /\ UNCHANGED entity
       \/ /\ FoundCustomer(q) /\ ~q.valid /\ q.op \in {"UpdateCustomer", "CreateAddress"}
          /\ Reply(r, "VALIDATION")
          /\ UNCHANGED entity
       \/ /\ FoundCustomer(q) /\ q.op # "GetCustomer"
          /\ q.valid \/ q.op \in OnOneAddress
          /\ Goto(r, AfterCustomer(q.op))
          /\ entity' = IF AfterCustomer(q.op) = "reload"
                       THEN [entity EXCEPT ![r] = Modified(customers[q.customer], q)]
                       ELSE entity
    /\ UNCHANGED loaded
    /\ Reading

\* DeleteAddress also looks at deleted rows and answers the same.
GetAddress(r) ==
    LET q == req[r] IN
    /\ pc[r] = "getAddress"
    /\ \/ ~FoundAddress(q) /\ Reply(r, "ADDRESS_NOT_FOUND") /\ UNCHANGED entity
       \/ FoundAddress(q) /\ q.op = "GetAddress" /\ Reply(r, "OK") /\ UNCHANGED entity
       \/ FoundAddress(q) /\ ~q.valid /\ Reply(r, "VALIDATION") /\ UNCHANGED entity
       \/ /\ FoundAddress(q) /\ q.valid /\ q.op # "GetAddress"
          /\ Goto(r, "reload")
          /\ entity' = [entity EXCEPT ![r] = [addresses[q.address] EXCEPT
                            !.deleted = (q.op = "DeleteAddress")]]
    /\ UNCHANGED loaded
    /\ Reading

\* list_active, list_active_by_customer.
List(r) ==
    /\ pc[r] = "list"
    /\ Reply(r, "OK")
    /\ UNCHANGED <<entity, loaded>>
    /\ Reading

\* _get_model_or_raise: the model of the first SELECT is no longer referenced,
\* so the session reads the row again, whatever its deleted_at; rows are never
\* removed, so it is there.
Reload(r) ==
    LET q == req[r] IN
    /\ pc[r] = "reload"
    /\ loaded' = [loaded EXCEPT ![r] = IF q.op \in OnOneAddress THEN addresses[q.address]
                                       ELSE customers[q.customer]]
    /\ Goto(r, "write")
    /\ UNCHANGED entity
    /\ Reading

-----------------------------------------------------------------------------
(* Writes.                                                                 *)

\* The UNIQUE constraint counts deleted customers.
MutEmailFree(c, e) == TRUE

EmailFree(c, e) == \A d \in Customers \ {c} : customers[d] # None => customers[d].email # e

\* Requests in flight that a deletion of the row overlaps.
Overlap(r, id) ==
    overlapped' = [q \in Requests |->
        IF q # r /\ pc[q] # "idle" THEN overlapped[q] \cup {id} ELSE overlapped[q]]

Committed(r) == wrote' = [wrote EXCEPT ![r] = TRUE] /\ UNCHANGED failures

EmailConflict(r) == Reply(r, "EMAIL_EXISTS") /\ UNCHANGED <<wrote, failures, overlapped>>

InsertCustomer(r) ==
    LET q == req[r] IN
    /\ pc[r] = "insertCustomer"
    /\ \/ /\ EmailFree(q.customer, q.email)
          /\ customers' = [customers EXCEPT ![q.customer] = [email |-> q.email, deleted |-> FALSE]]
          /\ Goto(r, "refresh")
          /\ Committed(r)
          /\ UNCHANGED overlapped
       \/ /\ ~EmailFree(q.customer, q.email)
          /\ EmailConflict(r)
          /\ UNCHANGED customers
    /\ UNCHANGED <<addresses, entity, loaded>>

\* The foreign key holds: customers are never removed.
InsertAddress(r) ==
    LET q == req[r] IN
    /\ pc[r] = "insertAddress"
    /\ addresses' = [addresses EXCEPT ![q.address] = [owner |-> q.customer, deleted |-> FALSE]]
    /\ Goto(r, "refresh")
    /\ Committed(r)
    /\ UNCHANGED <<customers, entity, loaded, overlapped>>

\* The ORM writes the columns that differ from the row it read last; the others
\* keep what is committed.  The timestamp of a deletion differs from any other.
Column(k, newest, old, new) ==
    IF new[k] # old[k] \/ (k = "deleted" /\ new[k]) THEN new[k] ELSE newest[k]

UpdateCustomerRow(r) ==
    LET c == req[r].customer
        row == [email   |-> Column("email", customers[c], loaded[r], entity[r]),
                deleted |-> Column("deleted", customers[c], loaded[r], entity[r])]
    IN
    /\ pc[r] = "write" /\ req[r].op \in {"UpdateCustomer", "DeleteCustomer"}
    /\ \/ /\ req[r].op = "UpdateCustomer"
          /\ EmailFree(c, row.email)
          /\ customers' = [customers EXCEPT ![c] = row]
          /\ Goto(r, "refresh")
          /\ Committed(r)
          /\ UNCHANGED overlapped
       \/ /\ req[r].op = "UpdateCustomer"
          /\ ~EmailFree(c, row.email)
          /\ EmailConflict(r)
          /\ UNCHANGED customers
       \/ /\ req[r].op = "DeleteCustomer"   \* soft_delete assigns deleted_at alone
          /\ customers' = [customers EXCEPT ![c].deleted = TRUE]
          /\ Goto(r, "refresh")
          /\ Committed(r)
          /\ Overlap(r, c)
    /\ Forget(r)
    /\ UNCHANGED addresses

UpdateAddressRow(r) ==
    LET a == req[r].address
        deleted == Column("deleted", addresses[a], loaded[r], entity[r])
    IN
    /\ pc[r] = "write" /\ req[r].op \in OnOneAddress
    /\ addresses' = [addresses EXCEPT ![a].deleted = deleted]
    /\ IF req[r].op = "DeleteAddress" THEN Overlap(r, a) ELSE UNCHANGED overlapped
    /\ Goto(r, "refresh")
    /\ Committed(r)
    /\ Forget(r)
    /\ UNCHANGED customers

\* to_entity(model) after the commit: the session expired the model, so its
\* columns are read once more.
Refresh(r) ==
    /\ pc[r] = "refresh"
    /\ Reply(r, "OK")
    /\ UNCHANGED <<entity, loaded>>
    /\ Reading

-----------------------------------------------------------------------------
(* The catch-all handler answers 500, also when the failing statement is   *)
(* the one after the commit; the session is closed in either case.         *)

MutFailureCode == "EMAIL_EXISTS"

FailureCode == "INTERNAL"

StatementFails(r) ==
    /\ pc[r] \notin {"idle", "respond"}
    /\ failures < MaxFailures
    /\ failures' = failures + 1
    /\ Reply(r, FailureCode)
    /\ Forget(r)
    /\ UNCHANGED <<tables, wrote, overlapped>>

Answer(r) ==
    /\ pc[r] = "respond"
    /\ pc' = [pc EXCEPT ![r] = "idle"]
    /\ req' = [req EXCEPT ![r] = NoRequest]
    /\ code' = [code EXCEPT ![r] = "NONE"]
    /\ wrote' = [wrote EXCEPT ![r] = FALSE]
    /\ overlapped' = [overlapped EXCEPT ![r] = {}]
    /\ UNCHANGED <<tables, entity, loaded, failures>>

Next ==
    \E r \in Requests :
        \/ Receive(r)           \/ Answer(r)            \/ StatementFails(r)
        \/ GetCustomer(r)       \/ GetAddress(r)        \/ List(r)  \/ Reload(r)
        \/ InsertCustomer(r)    \/ InsertAddress(r)
        \/ UpdateCustomerRow(r) \/ UpdateAddressRow(r)  \/ Refresh(r)

Spec == Init /\ [][Next]_vars
=============================================================================
