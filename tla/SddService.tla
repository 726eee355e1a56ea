----------------------------- MODULE SddService -----------------------------
(***************************************************************************)
(* The requests of customer-sdd, statement by statement, over SddStore.    *)
(*                                                                         *)
(* A request thread receives an HTTP request, runs the use case of its     *)
(* route (one step per SQL statement, the point where other transactions   *)
(* can get in between; the Python code around a statement touches only the *)
(* request's own objects and belongs to the step of that statement),       *)
(* builds the response and then commits: the commit is the app-context     *)
(* teardown, which runs after the response exists.                         *)
(***************************************************************************)
EXTENDS SddStore

CONSTANTS
    Operations,    \* the operations clients call
    MaxAddresses,  \* Customer.MAX_ACTIVE_ADDRESSES, 5 in the code
    MaxFailures    \* bound: how many statements or commits the database fails

AllOperations ==
    {"CreateCustomer", "UpdateCustomer", "DeleteCustomer", "CreateAddress",
     "UpdateAddress", "DeleteAddress", "Read"}
        \* "Read" is GetCustomer and ListAddresses, which issue the same statements

ASSUME BoundsAssumption ==
    /\ Operations \subseteq AllOperations
    /\ MaxAddresses \in Nat
    /\ MaxFailures \in Nat

ASSUME SeedLimitAssumption ==
    \A c \in Customers :
        Cardinality({a \in Addresses : SeedAddresses[a] = [owner |-> c, status |-> "ACTIVE"]})
            <= MaxAddresses

Request ==
    [op : AllOperations, customer : Customers, address : Addresses \cup {None},
     email : Emails \cup {None}, ident : Idents \cup {None}, fresh : SUBSET Addresses]

NoRequest ==
    [op |-> "None", customer |-> None, address |-> None, email |-> None,
     ident |-> None, fresh |-> {}]

Codes ==
    {"NONE", "OK", "VAL", "ERR-002", "ERR-003", "ERR-004", "ERR-005",
     "ERR-006", "ERR-007", "ERR-008"}

Points ==
    {"idle", "findEmail", "findIdent", "insertCustomer", "addAddress",
     "getCustomer", "getAddress", "reload", "writeCustomer", "writeAddress",
     "emailIndex", "identIndex", "selectAddresses", "cascade",
     "lockCustomer", "count", "list", "respond"}

VARIABLES
    pc,       \* the next statement of the request
    req,      \* what the client asked for (and the ids uuid4 will generate)
    entity,   \* the domain object the use case read and modified
    loaded,   \* the row the repository re-read in update()
    todo,     \* addresses still to insert, or selected to be marked DELETED
    code,     \* error code of the first error, or "OK"
    failures, \* database failures so far
    revived   \* history: addresses an UpdateAddress made ACTIVE again

requestVars == <<pc, req, entity, loaded, todo, code>>
vars == <<storeVars, requestVars, failures, revived>>

RequestTypeOK ==
    /\ pc \in [Requests -> Points]
    /\ req \in [Requests -> Request \cup {NoRequest}]
    /\ entity \in [Requests -> CustomerRow \cup AddressRow \cup {None}]
    /\ loaded \in [Requests -> CustomerRow \cup AddressRow \cup {None}]
    /\ todo \in [Requests -> SUBSET Addresses]
    /\ code \in [Requests -> Codes]

TypeOK ==
    /\ StoreTypeOK
    /\ RequestTypeOK
    /\ failures \in 0..MaxFailures
    /\ revived \in SUBSET Addresses

Init ==
    /\ StoreInit
    /\ pc = [r \in Requests |-> "idle"]
    /\ req = [r \in Requests |-> NoRequest]
    /\ entity = [r \in Requests |-> None]
    /\ loaded = [r \in Requests |-> None]
    /\ todo = [r \in Requests |-> {}]
    /\ code = [r \in Requests |-> "NONE"]
    /\ failures = 0
    /\ revived = {}

-----------------------------------------------------------------------------
(* Requests.  uuid4 never repeats an id: a creation gets ids no row has    *)
(* and no other request in flight was given.                               *)

FreshCustomers ==
    {c \in Customers : customers[c] = None /\ \A r \in Requests : req[r].customer # c}

FreshAddresses ==
    {a \in Addresses : addresses[a] = None /\ \A r \in Requests : a \notin req[r].fresh}

CreateCustomerRequests ==
    [op : {"CreateCustomer"}, customer : FreshCustomers, address : {None},
     email : Emails, ident : Idents, fresh : SUBSET FreshAddresses]

UpdateCustomerRequests ==
    [op : {"UpdateCustomer"}, customer : Customers, address : {None},
     email : Emails, ident : Idents, fresh : {{}}]

CreateAddressRequests ==
    [op : {"CreateAddress"}, customer : Customers, address : {None},
     email : {None}, ident : {None}, fresh : {{a} : a \in FreshAddresses}]

UpdateAddressRequests ==
    [op : {"UpdateAddress"}, customer : Customers, address : Addresses,
     email : {None}, ident : {None}, fresh : {{}}]

DeleteAddressRequests ==
    [op : {"DeleteAddress"}, customer : Customers, address : Addresses,
     email : {None}, ident : {None}, fresh : {{}}]

CustomerOnlyRequests ==
    [op : {"DeleteCustomer", "Read"}, customer : Customers, address : {None},
     email : {None}, ident : {None}, fresh : {{}}]

Incoming ==
    {q \in CreateCustomerRequests \cup UpdateCustomerRequests \cup
           CreateAddressRequests \cup UpdateAddressRequests \cup
           DeleteAddressRequests \cup CustomerOnlyRequests : q.op \in Operations}

-----------------------------------------------------------------------------
(* The two ways a statement ends: the use case goes on at point p, or it   *)
(* returns (its objects go out of scope) and the response carries c.       *)

Goto(r, p) == pc' = [pc EXCEPT ![r] = p] /\ UNCHANGED req

Reply(r, c) ==
    /\ Goto(r, "respond")
    /\ code' = [code EXCEPT ![r] = c]
    /\ entity' = [entity EXCEPT ![r] = None]
    /\ loaded' = [loaded EXCEPT ![r] = None]
    /\ todo' = [todo EXCEPT ![r] = {}]

NoFailure == UNCHANGED <<failures, revived>>

Reading == UNCHANGED storeVars /\ NoFailure

\* The statement a parsed request starts with; only CreateCustomer can fail
\* before its first one, on the number of embedded addresses.
Entry(q) ==
    CASE q.op = "CreateCustomer" ->
             IF Cardinality(q.fresh) > MaxAddresses THEN "respond" ELSE "findEmail"
      [] q.op = "CreateAddress" -> "lockCustomer"
      [] OTHER -> "getCustomer"

\* The route parses ids and body before it calls the use case, with the same
\* validate() of every field: what does not parse is answered with 400 (VAL),
\* and the use case's own field validation finds nothing more.
Receive(r) ==
    /\ pc[r] = "idle"
    /\ \E q \in Incoming, parsed \in BOOLEAN :
          LET entry == IF parsed THEN Entry(q) ELSE "respond"
              error == IF parsed THEN "ERR-005" ELSE "VAL"
              works == entry # "respond"
          IN
          /\ req' = [req EXCEPT ![r] = q]
          /\ pc' = [pc EXCEPT ![r] = entry]
          /\ code' = [code EXCEPT ![r] = IF works THEN "NONE" ELSE error]
          /\ todo' = [todo EXCEPT ![r] = IF works THEN q.fresh ELSE {}]
    /\ UNCHANGED <<entity, loaded>>
    /\ Reading

-----------------------------------------------------------------------------
(* Lookups.                                                                *)

\* session.get(CustomerModel, id), filtered by status, and what each use case
\* does with the customer before its next statement.
GetCustomer(r) ==
    LET c == req[r].customer IN
    /\ pc[r] = "getCustomer"
    /\ \/ /\ ~VisibleCustomer(c)
          /\ Reply(r, "ERR-003")
       \/ /\ VisibleCustomer(c)
          /\ req[r].op = "UpdateCustomer"
          /\ Goto(r, "findEmail")
          /\ entity' = [entity EXCEPT ![r] = customers[c]]
          /\ UNCHANGED <<loaded, todo, code>>
       \/ /\ VisibleCustomer(c)
          /\ req[r].op = "DeleteCustomer"
          /\ Goto(r, "reload")
          /\ entity' = [entity EXCEPT ![r] = [customers[c] EXCEPT !.status = "DELETED"]]
          /\ UNCHANGED <<loaded, todo, code>>
       \/ /\ VisibleCustomer(c)
          /\ req[r].op \in {"UpdateAddress", "DeleteAddress", "Read"}
          /\ Goto(r, IF req[r].op = "Read" THEN "list" ELSE "getAddress")
          /\ UNCHANGED <<entity, loaded, todo, code>>
    /\ Reading

AddressError(q) ==
    CASE ~VisibleAddress(q.address) -> "ERR-004"
      [] VisibleAddress(q.address) /\ addresses[q.address].owner # q.customer -> "ERR-006"
      [] OTHER -> "NONE"

GetAddress(r) ==
    LET a == req[r].address
        wanted == IF req[r].op = "DeleteAddress" THEN "DELETED" ELSE "ACTIVE"
    IN
    /\ pc[r] = "getAddress"
    /\ \/ /\ AddressError(req[r]) # "NONE"
          /\ Reply(r, AddressError(req[r]))
       \/ /\ AddressError(req[r]) = "NONE"
          /\ Goto(r, "reload")
          /\ entity' = [entity EXCEPT ![r] = [addresses[a] EXCEPT !.status = wanted]]
          /\ UNCHANGED <<loaded, todo, code>>
    /\ Reading

MutFoundByAnyone(r, k) ==
    \E d \in Customers : VisibleCustomer(d) /\ HasKey(customers[d], k, req[r][k])

\* find_by_email / find_by_identification, excluding the request's own customer
\* (which does not exist yet when it is being created).
FoundByOther(r, k) ==
    \E d \in Customers \ {req[r].customer} :
        VisibleCustomer(d) /\ HasKey(customers[d], k, req[r][k])

FindByEmail(r) ==
    /\ pc[r] = "findEmail"
    /\ code' = [code EXCEPT ![r] = IF FoundByOther(r, "email") THEN "ERR-002" ELSE "NONE"]
    /\ Goto(r, "findIdent")
    /\ UNCHANGED <<entity, loaded, todo>>
    /\ Reading

FindByIdentification(r) ==
    LET duplicate == code[r] # "NONE" \/ FoundByOther(r, "ident") IN
    /\ pc[r] = "findIdent"
    /\ \/ /\ duplicate
          /\ Reply(r, IF code[r] # "NONE" THEN code[r] ELSE "ERR-008")
       \/ /\ ~duplicate
          /\ req[r].op = "CreateCustomer"
          /\ Goto(r, "insertCustomer")
          /\ UNCHANGED <<entity, loaded, todo, code>>
       \/ /\ ~duplicate
          /\ req[r].op = "UpdateCustomer"
          /\ Goto(r, "reload")
          /\ entity' = [entity EXCEPT ![r].email = req[r].email, ![r].ident = req[r].ident]
          /\ UNCHANGED <<loaded, todo, code>>
    /\ Reading

-----------------------------------------------------------------------------
(* Writing a customer row: the heap version first, then one unique index   *)
(* after the other.                                                        *)

InsertCustomer(r) ==
    /\ pc[r] = "insertCustomer"
    /\ WriteCustomer(r, req[r].customer,
                     [status |-> "ACTIVE", email |-> req[r].email, ident |-> req[r].ident])
    /\ Goto(r, "emailIndex")
    /\ UNCHANGED <<customers, addresses, newAddresses, indexed,
                   entity, loaded, todo, code>>
    /\ NoFailure

\* The repository's update() reads the row again: the model its first read
\* loaded is referenced by nobody, so the session's weak identity map lost it.
Reload(r) ==
    /\ pc[r] = "reload"
    /\ \/ /\ req[r].op \in {"UpdateCustomer", "DeleteCustomer"}
          /\ loaded' = [loaded EXCEPT ![r] = customers[req[r].customer]]
          /\ Goto(r, "writeCustomer")
       \/ /\ req[r].op \in {"UpdateAddress", "DeleteAddress"}
          /\ loaded' = [loaded EXCEPT ![r] = addresses[req[r].address]]
          /\ Goto(r, "writeAddress")
    /\ UNCHANGED <<entity, todo, code>>
    /\ Reading

\* The ORM writes the columns whose value differs from the re-read row; the
\* others keep whatever the newest committed version holds.
MutNeverDirty(column, newest, old, new) == newest[column]

Merged(column, newest, old, new) ==
    IF new[column] # old[column] THEN new[column] ELSE newest[column]

UpdateCustomerRow(r) ==
    LET c == req[r].customer
        col(k) == Merged(k, customers[c], loaded[r], entity[r])
    IN
    /\ pc[r] = "writeCustomer"
    /\ CustomerLockFree(r, c)
    /\ WriteCustomer(r, c, [status |-> col("status"), email |-> col("email"),
                            ident |-> col("ident")])
    /\ Goto(r, "emailIndex")
    /\ UNCHANGED <<customers, addresses, newAddresses, indexed,
                   entity, loaded, todo, code>>
    /\ NoFailure

IndexOf(p) == IF p = "emailIndex" THEN "email" ELSE "ident"

MutConflictCode(p) == "ERR-009"

ConflictCode(p) == IF p = "emailIndex" THEN "ERR-002" ELSE "ERR-008"

\* The key is free: index it.
EnterIndex(r) ==
    LET c == req[r].customer
        k == IndexOf(pc[r])
        v == newCustomers[r][c][k]
    IN
    /\ pc[r] \in {"emailIndex", "identIndex"}
    /\ KeyFree(r, c, k, v) /\ ~KeyTaken(c, k, v)
    /\ indexed' = [indexed EXCEPT ![r] = @ \cup {k}]
    /\ \/ /\ pc[r] = "emailIndex"
          /\ Goto(r, "identIndex")
          /\ UNCHANGED <<entity, loaded, todo, code>>
       \/ /\ pc[r] = "identIndex"
          /\ req[r].op = "CreateCustomer" /\ todo[r] = {}
          /\ Reply(r, "OK")
       \/ /\ pc[r] = "identIndex"
          /\ \/ req[r].op # "CreateCustomer"
             \/ todo[r] # {}
          /\ Goto(r, CASE req[r].op = "CreateCustomer" -> "addAddress"
                       [] req[r].op = "DeleteCustomer" -> "selectAddresses"
                       [] OTHER -> "list")
          /\ UNCHANGED <<entity, loaded, todo, code>>
    /\ UNCHANGED <<customers, addresses, newCustomers, newAddresses, lockedCustomers>>
    /\ NoFailure

\* The key is taken: IntegrityError, session.rollback(), Duplicate*Error, 409.
DuplicateKey(r) ==
    LET c == req[r].customer
        k == IndexOf(pc[r])
        v == newCustomers[r][c][k]
    IN
    /\ pc[r] \in {"emailIndex", "identIndex"}
    /\ KeyFree(r, c, k, v) /\ KeyTaken(c, k, v)
    /\ Rollback(r)
    /\ Reply(r, ConflictCode(pc[r]))
    /\ NoFailure

-----------------------------------------------------------------------------
(* Addresses.                                                              *)

MutLockCustomer(r) ==
    /\ pc[r] = "lockCustomer"
    /\ \/ ~VisibleCustomer(req[r].customer) /\ Reply(r, "ERR-003")
       \/ /\ VisibleCustomer(req[r].customer)
          /\ Goto(r, "count")
          /\ UNCHANGED <<entity, loaded, todo, code>>
    /\ Reading

\* CreateAddress: SELECT ... WHERE status <> 'DELETED' FOR UPDATE.  A waiter
\* re-evaluates the condition on the version the holder committed.
LockCustomer(r) ==
    LET c == req[r].customer IN
    /\ pc[r] = "lockCustomer"
    /\ \/ /\ ~VisibleCustomer(c)
          /\ Reply(r, "ERR-003")
          /\ UNCHANGED lockedCustomers
       \/ /\ VisibleCustomer(c) /\ CustomerLockFree(r, c)
          /\ lockedCustomers' = [lockedCustomers EXCEPT ![r] = @ \cup {c}]
          /\ Goto(r, "count")
          /\ UNCHANGED <<entity, loaded, todo, code>>
    /\ UNCHANGED <<customers, addresses, newCustomers, newAddresses, indexed>>
    /\ NoFailure

RoomForOneMore(n) == n < MaxAddresses

CountActive(r) ==
    LET room == RoomForOneMore(Cardinality(ActiveOf(req[r].customer))) IN
    /\ pc[r] = "count"
    /\ \/ /\ room
          /\ Goto(r, "addAddress")
          /\ UNCHANGED <<entity, loaded, todo, code>>
       \/ ~room /\ Reply(r, "ERR-005")
    /\ Reading

MutFirstIsLast(S, a) == TRUE

LastOf(S, a) == S = {a}

\* AddressRepository.add: one INSERT per address; the row is nobody else's.
AddAddress(r) ==
    /\ pc[r] = "addAddress"
    /\ \E a \in todo[r] :
          /\ WriteAddress(r, a, [owner |-> req[r].customer, status |-> "ACTIVE"])
          /\ \/ LastOf(todo[r], a) /\ Reply(r, "OK")
             \/ /\ ~LastOf(todo[r], a)
                /\ todo' = [todo EXCEPT ![r] = @ \ {a}]
                /\ Goto(r, "addAddress")
                /\ UNCHANGED <<entity, loaded, code>>
    /\ UNCHANGED <<customers, addresses, newCustomers, lockedCustomers, indexed>>
    /\ NoFailure

\* A change of an address that locks its customer as well, but after the address.
MutCustomerLast(r) ==
    LET a == req[r].address
        status == Merged("status", addresses[a], loaded[r], entity[r])
    IN
    /\ pc[r] = "writeAddress"
    /\ AddressLockFree(r, a)
    /\ WriteAddress(r, a, [owner |-> addresses[a].owner, status |-> status])
    /\ Goto(r, "lockCustomer")
    /\ UNCHANGED <<customers, addresses, newCustomers, lockedCustomers, indexed,
                   entity, loaded, todo, code>>
    /\ NoFailure

\* AddressRepository.update: of UpdateAddress and DeleteAddress.
UpdateAddressRow(r) ==
    LET a == req[r].address
        status == Merged("status", addresses[a], loaded[r], entity[r])
    IN
    /\ pc[r] = "writeAddress"
    /\ AddressLockFree(r, a)
    /\ WriteAddress(r, a, [owner |-> addresses[a].owner, status |-> status])
    /\ Reply(r, "OK")
    /\ UNCHANGED <<customers, addresses, newCustomers, lockedCustomers, indexed>>
    /\ NoFailure

\* mark_all_deleted_by_customer: selects the active addresses, then updates
\* them row by row in the order of their (random) ids.
SelectAddresses(r) ==
    LET victims == ActiveOf(req[r].customer) IN
    /\ pc[r] = "selectAddresses"
    /\ todo' = [todo EXCEPT ![r] = victims]
    /\ Goto(r, IF victims = {} THEN "list" ELSE "cascade")
    /\ UNCHANGED <<entity, loaded, code>>
    /\ Reading

CascadeDelete(r) ==
    /\ pc[r] = "cascade"
    /\ \E a \in todo[r] :
          /\ AddressLockFree(r, a)
          /\ WriteAddress(r, a, [addresses[a] EXCEPT !.status = "DELETED"])
          /\ todo' = [todo EXCEPT ![r] = @ \ {a}]
          /\ Goto(r, IF todo[r] = {a} THEN "list" ELSE "cascade")
    /\ UNCHANGED <<customers, addresses, newCustomers, lockedCustomers, indexed,
                   entity, loaded, code>>
    /\ NoFailure

\* list_by_customer for the response body.
ListAddresses(r) ==
    /\ pc[r] = "list"
    /\ Reply(r, "OK")
    /\ Reading

-----------------------------------------------------------------------------
(* The end of a request, and what can go wrong.                            *)

Finish(r) ==
    /\ pc' = [pc EXCEPT ![r] = "idle"]
    /\ req' = [req EXCEPT ![r] = NoRequest]
    /\ code' = [code EXCEPT ![r] = "NONE"]
    /\ UNCHANGED <<entity, loaded, todo>>

Revives(r, a) ==
    /\ addresses[a] # None /\ addresses[a].status = "DELETED"
    /\ newAddresses[r][a] # None /\ newAddresses[r][a].status = "ACTIVE"

Deletes(r, a) ==
    newAddresses[r][a] # None /\ newAddresses[r][a].status = "DELETED"

\* _teardown_session: session.commit() whatever the response says.
Teardown(r) ==
    /\ pc[r] = "respond"
    /\ Commit(r)
    /\ revived' = (revived \cup {a \in Addresses : Revives(r, a)})
                    \ {a \in Addresses : Deletes(r, a)}
    /\ Finish(r)
    /\ UNCHANGED failures

\* session.commit() raises: logged and rolled back; the response stands.
TeardownFails(r) ==
    /\ pc[r] = "respond"
    /\ failures < MaxFailures
    /\ failures' = failures + 1
    /\ Rollback(r)
    /\ Finish(r)
    /\ UNCHANGED revived

\* A statement raises (connection lost, value too long for its column, ...):
\* the transaction is gone and the catch-all handler answers ERR-007.
StatementFails(r) ==
    /\ pc[r] \notin {"idle", "respond"}
    /\ failures < MaxFailures
    /\ failures' = failures + 1
    /\ Rollback(r)
    /\ Reply(r, "ERR-007")
    /\ UNCHANGED revived

\* r cannot take its next step before q's transaction ends.
RowWait(r, q) ==
    /\ q # r
    /\ \/ /\ pc[r] = "writeCustomer"
          /\ req[r].customer \in lockedCustomers[q]
       \/ /\ pc[r] = "lockCustomer" /\ VisibleCustomer(req[r].customer)
          /\ req[r].customer \in lockedCustomers[q]
       \/ /\ pc[r] = "writeAddress"
          /\ newAddresses[q][req[r].address] # None
       \/ /\ pc[r] = "cascade"
          /\ \E a \in todo[r] : newAddresses[q][a] # None

KeyWait(r, q) ==
    LET c == req[r].customer
        k == IndexOf(pc[r])
    IN
    /\ q # r
    /\ pc[r] \in {"emailIndex", "identIndex"}
    /\ KeyBusy(r, q, c, k, newCustomers[r][c][k])

Waits(r, q) == RowWait(r, q) \/ KeyWait(r, q)

\* PostgreSQL's deadlock detector aborts one transaction of a cycle of waits.
Deadlocked(S) == S # {} /\ \A r \in S : \E q \in S : Waits(r, q)

DeadlockVictim(r) ==
    /\ \E S \in SUBSET Requests : r \in S /\ Deadlocked(S)
    /\ Rollback(r)
    /\ Reply(r, "ERR-007")
    /\ NoFailure

-----------------------------------------------------------------------------
Statement(r) ==
    \/ GetCustomer(r)      \/ GetAddress(r)
    \/ FindByEmail(r)      \/ FindByIdentification(r)
    \/ InsertCustomer(r)   \/ Reload(r)
    \/ UpdateCustomerRow(r) \/ EnterIndex(r) \/ DuplicateKey(r)
    \/ LockCustomer(r)     \/ CountActive(r)  \/ AddAddress(r)
    \/ UpdateAddressRow(r) \/ SelectAddresses(r) \/ CascadeDelete(r)
    \/ ListAddresses(r)    \/ DeadlockVictim(r)

Failure(r) == StatementFails(r) \/ TeardownFails(r)

Next == \E r \in Requests : Receive(r) \/ Statement(r) \/ Teardown(r) \/ Failure(r)

Spec == Init /\ [][Next]_vars
=============================================================================
