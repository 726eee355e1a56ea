------------------------------- MODULE Hybrid -------------------------------
(***************************************************************************)
(* customer-hybrid: customers, their addresses and the requests on them.   *)
(*                                                                         *)
(* Every repository method commits (or rolls back) before it returns and   *)
(* writes with one statement at most, so a statement and the commit that   *)
(* follows it are one step: another transaction either waits for that      *)
(* commit or sees what was there before.  A request is a sequence of such  *)
(* steps.  Deletions are physical.                                         *)
(*                                                                         *)
(* The texts of a customer are dropped.  An address keeps its columns,     *)
(* because PATCH and PUT differ in which of them they write.               *)
(***************************************************************************)
EXTENDS Integers, FiniteSets

CONSTANTS
    Customers,     \* customer ids
    Addresses,     \* address ids: PUT takes them from the client, POST from uuid4
    Columns,       \* columns of an address: country, state, city, address, postal_code
    Values,        \* texts of a column
    Requests,      \* request threads
    None,
    Operations,    \* the operations clients call
    MaxAddresses,  \* MAX_ADDRESSES_PER_CUSTOMER, 5 in the code
    MaxFailures    \* bound: how many statements the database fails

CustomerOperations == {"CreateCustomer", "UpdateCustomer", "DeleteCustomer",
                       "GetCustomer", "ListCustomers"}
AddressOperations  == {"PatchAddress", "ReplaceAddress", "DeleteAddress", "GetAddress"}
AllOperations      == CustomerOperations \cup AddressOperations
                          \cup {"CreateAddress", "ListAddresses"}

Texts      == [Columns -> Values]
Patches    == [Columns -> Values \cup {None}]
AddressRow == [owner : Customers, texts : Texts]

ASSUME DataAssumption ==
    /\ None \notin AddressRow /\ None \notin Texts
    /\ None \notin Values \cup Customers \cup Addresses
    /\ IsFiniteSet(Addresses) /\ IsFiniteSet(Requests)

ASSUME BoundsAssumption ==
    /\ Operations \subseteq AllOperations
    /\ MaxAddresses \in Nat \ {0}
    /\ MaxFailures \in Nat

Request ==
    [op : AllOperations, customer : Customers, address : Addresses \cup {None},
     body : Patches \cup {None}]

NoRequest == [op |-> "None", customer |-> None, address |-> None, body |-> None]

Codes == {"NONE", "OK", "CREATED", "USER_NOT_FOUND", "ADDRESS_NOT_FOUND",
          "MAX_ADDRESSES_PER_CUSTOMER", "SERVICE_UNAVAILABLE", "INVALID_UUID",
          "UNHANDLED"}   \* no handler of the application: Flask's own 400, 415 or 500

Points == {"idle", "insertCustomer", "updateCustomer", "deleteCustomer", "count",
           "insertAddress", "getAddress", "updateAddress", "upsertSelect",
           "upsertInsert", "upsertUpdate", "refresh", "deleteAddress", "read",
           "respond"}

VARIABLES
    customers,  \* ids of the rows of table customers
    addresses,  \* rows of table addresses
    pc,         \* the next statement of the request
    req,        \* what the client asked for; POST also holds the uuid4 it will use
    entity,     \* texts of the domain Address a PATCH read and modified
    code,       \* how the request is answered
    wrote,      \* history: the request committed a change
    failures    \* database failures so far

vars == <<customers, addresses, pc, req, entity, code, wrote, failures>>

TypeOK ==
    /\ customers \in SUBSET Customers
    /\ addresses \in [Addresses -> AddressRow \cup {None}]
    /\ pc \in [Requests -> Points]
    /\ req \in [Requests -> Request \cup {NoRequest}]
    /\ entity \in [Requests -> Texts \cup {None}]
    /\ code \in [Requests -> Codes]
    /\ wrote \in [Requests -> BOOLEAN]
    /\ failures \in 0..MaxFailures

\* The database a first migration creates is empty.
Init ==
    /\ customers = {}
    /\ addresses = [a \in Addresses |-> None]
    /\ pc = [r \in Requests |-> "idle"]
    /\ req = [r \in Requests |-> NoRequest]
    /\ entity = [r \in Requests |-> None]
    /\ code = [r \in Requests |-> "NONE"]
    /\ wrote = [r \in Requests |-> FALSE]
    /\ failures = 0

-----------------------------------------------------------------------------
(* What clients ask for.  uuid4 repeats no id: a POST gets an id no row    *)
(* and no request has, and clients cannot name it before its answer.       *)

BeingCreated(op, key) == {req[r][key] : r \in {q \in Requests : req[q].op = op}}

FreshCustomers == {c \in Customers \ customers : \A r \in Requests : req[r].customer # c}

FreshAddresses ==
    {a \in Addresses : addresses[a] = None /\ \A r \in Requests : req[r].address # a}

NamedCustomers == Customers \ BeingCreated("CreateCustomer", "customer")

NamedAddresses == Addresses \ BeingCreated("CreateAddress", "address")

Incoming ==
    {q \in [op : {"CreateCustomer"}, customer : FreshCustomers, address : {None}, body : {None}]
        \cup [op : CustomerOperations \ {"CreateCustomer"}, customer : NamedCustomers,
              address : {None}, body : {None}]
        \cup [op : {"ListAddresses"}, customer : NamedCustomers, address : {None}, body : {None}]
        \cup [op : {"CreateAddress"}, customer : NamedCustomers, address : FreshAddresses, body : Texts]
        \cup [op : {"GetAddress", "DeleteAddress"}, customer : NamedCustomers,
              address : NamedAddresses, body : {None}]
        \cup [op : {"ReplaceAddress"}, customer : NamedCustomers, address : NamedAddresses, body : Texts]
        \cup [op : {"PatchAddress"}, customer : NamedCustomers, address : NamedAddresses, body : Patches]
     : q.op \in Operations}

Entry ==
    [CreateCustomer |-> "insertCustomer", UpdateCustomer |-> "updateCustomer",
     DeleteCustomer |-> "deleteCustomer", GetCustomer |-> "read", ListCustomers |-> "read",
     CreateAddress |-> "count", ListAddresses |-> "read", GetAddress |-> "read",
     PatchAddress |-> "getAddress", ReplaceAddress |-> "getAddress",
     DeleteAddress |-> "deleteAddress"]

\* What the route refuses before it calls the service: an id in the path that
\* is no uuid, and a body that is no JSON or does not validate, for which the
\* application registers no handler.
Refusals(q) ==
    {c \in {"INVALID_UUID"} : q.op \notin {"CreateCustomer", "ListCustomers"}}
        \cup {c \in {"UNHANDLED"} : q.op \in {"CreateCustomer", "UpdateCustomer",
                                  "CreateAddress", "PatchAddress", "ReplaceAddress"}}

Receive(r) ==
    /\ pc[r] = "idle"
    /\ \E q \in Incoming :
          /\ req' = [req EXCEPT ![r] = q]
          /\ \/ /\ pc' = [pc EXCEPT ![r] = Entry[q.op]]
                /\ UNCHANGED code
             \/ \E c \in Refusals(q) :
                   /\ pc' = [pc EXCEPT ![r] = "respond"]
                   /\ code' = [code EXCEPT ![r] = c]
    /\ UNCHANGED <<customers, addresses, entity, wrote, failures>>

-----------------------------------------------------------------------------
(* A statement ends in the next one or in an answer.                       *)

Goto(r, p) == pc' = [pc EXCEPT ![r] = p] /\ UNCHANGED <<req, code>>

Reply(r, c) ==
    /\ pc' = [pc EXCEPT ![r] = "respond"]
    /\ code' = [code EXCEPT ![r] = c]
    /\ UNCHANGED req

Reading == UNCHANGED <<customers, addresses, wrote, failures>>

Wrote(r) == wrote' = [wrote EXCEPT ![r] = TRUE] /\ UNCHANGED failures

\* The WHERE clause of every statement on one address.
MutAnyOwner(q) == addresses[q.address] # None

Found(q) == addresses[q.address] # None /\ addresses[q.address].owner = q.customer

Owned(c) == {a \in Addresses : addresses[a] # None /\ addresses[a].owner = c}

-----------------------------------------------------------------------------
(* Customers.                                                              *)

InsertCustomer(r) ==
    /\ pc[r] = "insertCustomer"
    /\ customers' = customers \cup {req[r].customer}
    /\ Reply(r, "CREATED")
    /\ Wrote(r)
    /\ UNCHANGED <<addresses, entity>>

\* UPDATE ... RETURNING id, then commit; only then is the id looked at.
UpdateCustomer(r) ==
    LET exists == req[r].customer \in customers IN
    /\ pc[r] = "updateCustomer"
    /\ Reply(r, IF exists THEN "OK" ELSE "USER_NOT_FOUND")
    /\ wrote' = [wrote EXCEPT ![r] = exists]
    /\ UNCHANGED <<customers, addresses, entity, failures>>

Cascade(c) == [a \in Addresses |-> IF a \in Owned(c) THEN None ELSE addresses[a]]

\* ON DELETE CASCADE takes the addresses along.
DeleteCustomer(r) ==
    LET c == req[r].customer IN
    /\ pc[r] = "deleteCustomer"
    /\ Reply(r, IF c \in customers THEN "OK" ELSE "USER_NOT_FOUND")
    /\ customers' = customers \ {c}
    /\ addresses' = Cascade(c)
    /\ wrote' = [wrote EXCEPT ![r] = c \in customers]
    /\ UNCHANGED <<entity, failures>>

\* The four GET routes.
Read(r) ==
    /\ pc[r] = "read"
    /\ Reply(r, CASE req[r].op = "GetCustomer" /\ req[r].customer \notin customers -> "USER_NOT_FOUND"
                  [] req[r].op = "GetAddress" /\ ~Found(req[r]) -> "ADDRESS_NOT_FOUND"
                  [] OTHER -> "OK")
    /\ UNCHANGED entity
    /\ Reading

-----------------------------------------------------------------------------
(* Addresses.                                                              *)

MutRoomForOneMore(n) == n <= MaxAddresses

RoomForOneMore(n) == n < MaxAddresses

\* count_by_customer_id, of POST and of a PUT that found no address.
CountAddresses(r) ==
    LET room == RoomForOneMore(Cardinality(Owned(req[r].customer))) IN
    /\ pc[r] = "count"
    /\ \/ /\ room
          /\ Goto(r, IF req[r].op = "CreateAddress" THEN "insertAddress" ELSE "upsertSelect")
       \/ ~room /\ Reply(r, "MAX_ADDRESSES_PER_CUSTOMER")
    /\ UNCHANGED entity
    /\ Reading

\* INSERT and commit.  A primary key that exists (PUT with the id of another
\* customer's address, or one inserted since the SELECT) and a customer that
\* does not are the same IntegrityError to the repository.
MutNoForeignKey(q) == addresses[q.address] = None

MutOnConflict(q) == q.customer \in customers

Insertable(q) == addresses[q.address] = None /\ q.customer \in customers

InsertAddress(r) ==
    LET q == req[r] IN
    /\ pc[r] \in {"insertAddress", "upsertInsert"}
    /\ \/ /\ Insertable(q)
          /\ addresses' = [addresses EXCEPT ![q.address] = [owner |-> q.customer, texts |-> q.body]]
          /\ Wrote(r)
          /\ \/ pc[r] = "insertAddress" /\ Reply(r, "CREATED")
             \/ pc[r] = "upsertInsert" /\ Goto(r, "refresh")
       \/ /\ ~Insertable(q)
          /\ Reply(r, "USER_NOT_FOUND")
          /\ UNCHANGED <<addresses, wrote, failures>>
    /\ UNCHANGED <<customers, entity>>

MutGone == "ADDRESS_NOT_FOUND"

Gone == "SERVICE_UNAVAILABLE"

\* The commit of an upsert expired the inserted model, so reading it for the
\* answer selects the row by its primary key; when the row is gone already the
\* ObjectDeletedError is reported as any other SQLAlchemyError.
Refresh(r) ==
    /\ pc[r] = "refresh"
    /\ Reply(r, IF addresses[req[r].address] # None THEN "CREATED" ELSE Gone)
    /\ UNCHANGED entity
    /\ Reading

MutPatched(texts, patch) == patch

Patched(texts, patch) == [k \in Columns |-> IF patch[k] # None THEN patch[k] ELSE texts[k]]

\* get_by_id of PATCH, which then merges, and of PUT, which only probes.
GetAddress(r) ==
    LET q == req[r] IN
    /\ pc[r] = "getAddress"
    /\ \/ /\ q.op = "PatchAddress" /\ Found(q)
          /\ entity' = [entity EXCEPT ![r] = Patched(addresses[q.address].texts, q.body)]
          /\ Goto(r, "updateAddress")
       \/ /\ q.op = "PatchAddress" /\ ~Found(q)
          /\ Reply(r, "ADDRESS_NOT_FOUND")
          /\ UNCHANGED entity
       \/ /\ q.op = "ReplaceAddress"
          /\ Goto(r, IF Found(q) THEN "upsertSelect" ELSE "count")
          /\ UNCHANGED entity
    /\ Reading

UpsertSelect(r) ==
    /\ pc[r] = "upsertSelect"
    /\ Goto(r, IF Found(req[r]) THEN "upsertUpdate" ELSE "upsertInsert")
    /\ UNCHANGED entity
    /\ Reading

\* UPDATE of every column: with RETURNING in update_partial, which answers 404
\* when nothing matched; the UPDATE of upsert does not look.
UpdateAddress(r) ==
    LET q == req[r]
        texts == IF pc[r] = "updateAddress" THEN entity[r] ELSE q.body
    IN
    /\ pc[r] \in {"updateAddress", "upsertUpdate"}
    /\ \/ /\ Found(q)
          /\ addresses' = [addresses EXCEPT ![q.address].texts = texts]
          /\ Wrote(r)
          /\ Reply(r, "OK")
       \/ /\ ~Found(q)
          /\ Reply(r, IF pc[r] = "updateAddress" THEN "ADDRESS_NOT_FOUND" ELSE "OK")
          /\ UNCHANGED <<addresses, wrote, failures>>
    /\ entity' = [entity EXCEPT ![r] = None]
    /\ UNCHANGED customers

DeleteAddress(r) ==
    LET q == req[r] IN
    /\ pc[r] = "deleteAddress"
    /\ \/ /\ Found(q)
          /\ addresses' = [addresses EXCEPT ![q.address] = None]
          /\ Wrote(r)
          /\ Reply(r, "OK")
       \/ /\ ~Found(q)
          /\ Reply(r, "ADDRESS_NOT_FOUND")
          /\ UNCHANGED <<addresses, wrote, failures>>
    /\ UNCHANGED <<customers, entity>>

-----------------------------------------------------------------------------
(* SQLAlchemyError: rollback and 503, but get_all of customers raises an   *)
(* exception nobody handles.                                               *)

StatementFails(r) ==
    /\ pc[r] \notin {"idle", "respond"}
    /\ failures < MaxFailures
    /\ failures' = failures + 1
    /\ Reply(r, IF req[r].op = "ListCustomers" THEN "UNHANDLED" ELSE "SERVICE_UNAVAILABLE")
    /\ entity' = [entity EXCEPT ![r] = None]
    /\ UNCHANGED <<customers, addresses, wrote>>

Answer(r) ==
    /\ pc[r] = "respond"
    /\ pc' = [pc EXCEPT ![r] = "idle"]
    /\ req' = [req EXCEPT ![r] = NoRequest]
    /\ code' = [code EXCEPT ![r] = "NONE"]
    /\ wrote' = [wrote EXCEPT ![r] = FALSE]
    /\ UNCHANGED <<customers, addresses, entity, failures>>

Next ==
    \E r \in Requests :
        \/ Receive(r)        \/ Answer(r)         \/ StatementFails(r)
        \/ InsertCustomer(r) \/ UpdateCustomer(r) \/ DeleteCustomer(r) \/ Read(r)
        \/ CountAddresses(r) \/ InsertAddress(r)  \/ Refresh(r)
        \/ GetAddress(r)     \/ UpsertSelect(r)   \/ UpdateAddress(r)  \/ DeleteAddress(r)

Spec == Init /\ [][Next]_vars
=============================================================================
