------------------------------- MODULE SddHttp -------------------------------
(***************************************************************************)
(* The HTTP boundary of customer-sdd: from the request line and the JSON   *)
(* body to the status and the envelope of the answer, with the paginated   *)
(* listing.                                                                *)
(*                                                                         *)
(* SddService has the statements of the use cases and their transactions.  *)
(* Here the customers are followed as far as the answers need them: a      *)
(* lookup is a step, and so are the two uniqueness lookups together, and a *)
(* write with its commit.  The requests on addresses are one step, which   *)
(* ends in any of the codes SddService has for them.                       *)
(***************************************************************************)
EXTENDS SddFields

CONSTANTS
    Ids,              \* ids of customers, in the order of their created_at
    AddressIds,
    Requests,         \* request threads
    Sends,            \* for every thread, what its client may send
    AddressSegments,  \* segments of a path that begin with the word addresses
    None,
    DefaultPageSize,  \* 20 in the code
    MaxPageSize,      \* 100 in the code
    MaxBigint         \* largest OFFSET that PostgreSQL accepts

Customers == ToSet(Ids)

CustomerRow == [status : {"ACTIVE", "DELETED"}, email : Texts, ident : Texts]

FieldNames == ToSet(CustomerFields) \cup ToSet(AddressFields)
                  \cup {"addresses", "customer_id", "address_id"}

Paths == ({"addresses"} \X Nat) \cup ({"addresses"} \X Nat \X FieldNames) \cup Seq(FieldNames)

Codes == {"VAL-001", "VAL-003", "VAL-004", "VAL-005", "VAL-009", "ERR-001", "ERR-002",
          "ERR-003", "ERR-004", "ERR-005", "ERR-006", "ERR-007", "ERR-008"}

Errors == [code : Codes, field : Paths]

Listings == [total : Nat, churn : Nat]

Responses ==
    [status    : {200, 201, 400, 404, 405, 409, 500},
     success   : BOOLEAN,
     operation : {"create", "list", "read", "update", "delete"},
     entity    : {"customer", "address"},
     errors    : Seq(Errors) \cup {None},
     page      : [items : Seq(Customers), total : Nat, churn : Nat] \cup {None}]

ASSUME HttpAssumption ==
    /\ Ids \in Seq(ToSet(Ids)) /\ IsInjective(Ids)
    /\ MaxPageSize \in Nat /\ DefaultPageSize \in 1..MaxPageSize
    /\ MaxBigint \in Nat
    /\ "addresses" \in AddressSegments /\ "customers" \notin AddressSegments
    /\ None \notin CustomerRow \cup Listings \cup Responses \cup Seq(Errors)

VARIABLES
    customers,  \* rows of table customers
    pc,         \* the next statement of the request
    req,        \* what the client sent; a creation also holds its uuid4
    entity,     \* the Customer that get_by_id returned
    listing,    \* total of a listing; history: rows that came or went since
    answer      \* the response

vars == <<customers, pc, req, entity, listing, answer>>

Points == {"idle", "find", "unique", "write", "count", "select", "address", "respond"}

NoRequest == [method |-> "None"]

TypeOK ==
    /\ customers \in [Customers -> CustomerRow \cup {None}]
    /\ \A c \in Customers : customers[c] # None =>
           /\ ValidText("email", customers[c].email) /\ ~customers[c].email.padded
           /\ ValidText("identification", customers[c].ident) /\ ~customers[c].ident.padded
    /\ pc \in [Requests -> Points]
    /\ req = [r \in Requests |-> req[r]]
    /\ \A r \in Requests : pc[r] = "idle" <=> req[r] = NoRequest
    /\ entity \in [Requests -> CustomerRow \cup {None}]
    /\ listing \in [Requests -> Listings \cup {None}]
    /\ \A r \in Requests : pc[r] = "select" <=> listing[r] # None
    /\ answer \in [Requests -> Responses \cup {None}]
    /\ \A r \in Requests : pc[r] = "respond" <=> answer[r] # None

Init ==
    /\ customers = [c \in Customers |-> None]
    /\ pc = [r \in Requests |-> "idle"]
    /\ req = [r \in Requests |-> NoRequest]
    /\ entity = [r \in Requests |-> None]
    /\ listing = [r \in Requests |-> None]
    /\ answer = [r \in Requests |-> None]

-----------------------------------------------------------------------------
(* Routes, and the ids in their paths.                                     *)

Route(name, method, segments, operation, about, success) ==
    [name |-> name, method |-> method, segments |-> segments,
     operation |-> operation, entity |-> about, success |-> success]

\* The rules of the two blueprints, with the operation and the entity that the
\* use case itself writes into its result.
Routes ==
    {Route("CreateCustomer", "POST",   1, "create", "customer", 201),
     Route("ListCustomers",  "GET",    1, "list",   "customer", 200),
     Route("GetCustomer",    "GET",    2, "read",   "customer", 200),
     Route("UpdateCustomer", "PUT",    2, "update", "customer", 200),
     Route("DeleteCustomer", "DELETE", 2, "delete", "customer", 200),
     Route("CreateAddress",  "POST",   3, "create", "address",  201),
     Route("ListAddresses",  "GET",    3, "list",   "address",  200),
     Route("UpdateAddress",  "PUT",    4, "update", "address",  200),
     Route("DeleteAddress",  "DELETE", 4, "delete", "address",  200)}

WithBody == {"CreateCustomer", "UpdateCustomer", "CreateAddress", "UpdateAddress"}

OnPath(path) ==
    {t \in Routes : /\ t.segments = Len(path)
                    /\ path[1] = "customers"
                    /\ Len(path) > 2 => path[3] = "addresses"}

Matching(q) == {t \in OnPath(q.path) : t.method = q.method}

RouteOf(q) == CHOOSE t \in Matching(q) : TRUE

\* Requests are what Flask and json.loads can make of the bytes of a client.
WellFormed(q) ==
    /\ q = [method |-> q.method, path |-> q.path, body |-> q.body,
            page |-> q.page, size |-> q.size, id |-> q.id]
    /\ IsValue(q.page) /\ IsValue(q.size)
    /\ Matching(q) # {} /\ RouteOf(q).name \in WithBody /\ q.body.kind = "object" =>
          /\ RouteOf(q).entity = "customer" => IsObject(q.body, CustomerFields)
          /\ RouteOf(q).entity = "address" => IsObject(q.body, AddressFields)
          /\ RouteOf(q).name = "CreateCustomer" /\ q.body.addresses.kind = "list" =>
                IsList(q.body.addresses)

ASSUME SendsAssumption == \A r \in Requests : \A q \in Sends[r] : WellFormed(q)

\* The ids are parsed before the body, and the first bad one ends the request.
IdErrors(path) ==
    IF Len(path) > 1 /\ path[2] \notin Customers THEN <<Error("ERR-001", <<"customer_id">>)>>
    ELSE IF Len(path) > 3 /\ path[4] \notin AddressIds THEN <<Error("ERR-001", <<"address_id">>)>>
    ELSE <<>>

\* get_json(silent=True) turns malformed JSON into None, but not the RecursionError
\* of a body nested deeper than the interpreter follows.
Unreadable(q) ==
    RouteOf(q).name \in WithBody /\ IdErrors(q.path) = <<>> /\ q.body.kind = "nested"

ParseErrors(q) ==
    IF IdErrors(q.path) # <<>> THEN IdErrors(q.path)
    ELSE IF RouteOf(q).name \in WithBody THEN BodyErrors(RouteOf(q).name, q.body)
    ELSE <<>>

-----------------------------------------------------------------------------
(* Answers.                                                                *)

MutStatusForCode(code) ==
    CASE code \in {"VAL-001", "VAL-003", "VAL-004", "VAL-005", "VAL-009", "ERR-001"} -> 400
      [] code \in {"ERR-003", "ERR-004", "ERR-006"}                                  -> 404
      [] code \in {"ERR-002", "ERR-005"}                                             -> 409
      [] OTHER                                                                       -> 500

StatusForCode(code) ==
    CASE code \in {"VAL-001", "VAL-003", "VAL-004", "VAL-005", "VAL-009", "ERR-001"} -> 400
      [] code \in {"ERR-003", "ERR-004", "ERR-006"}                                  -> 404
      [] code \in {"ERR-002", "ERR-005", "ERR-008"}                                  -> 409
      [] OTHER                                                                       -> 500

StatusFor(errors) == IF errors = <<>> THEN 500 ELSE StatusForCode(errors[1].code)

Collections == {"customers", "addresses"}

\* What the exception handlers take the operation and the entity from.
InferOperation(q) ==
    CASE q.method = "POST"   -> "create"
      [] q.method = "PUT"    -> "update"
      [] q.method = "DELETE" -> "delete"
      [] OTHER -> IF q.path[Len(q.path)] \in Collections THEN "list" ELSE "read"

MutInferEntity(q) == IF Len(q.path) = 3 THEN "address" ELSE "customer"

\* "/addresses" in request.path: any segment that begins with the word.
InferEntity(q) ==
    IF \E i \in 1..Len(q.path) : q.path[i] \in AddressSegments THEN "address" ELSE "customer"

Response(status, operation, about, errors, page) ==
    [status |-> status, success |-> errors = None, operation |-> operation,
     entity |-> about, errors |-> errors, page |-> page]

Ok(q, page) == Response(RouteOf(q).success, RouteOf(q).operation, RouteOf(q).entity, None, page)

Failed(q, errors) ==
    Response(StatusFor(errors), RouteOf(q).operation, RouteOf(q).entity, errors, None)

Raised(q, about, errors) == Response(StatusFor(errors), InferOperation(q), about, errors, None)

Unexpected(q) == Raised(q, InferEntity(q), <<Error("ERR-007", <<>>)>>)

\* Flask's own 404 or 405, with an empty list of errors.
NotRouted(q) ==
    Response(IF OnPath(q.path) = {} THEN 404 ELSE 405, InferOperation(q), InferEntity(q), <<>>, None)

Reply(r, response) ==
    /\ pc' = [pc EXCEPT ![r] = "respond"]
    /\ answer' = [answer EXCEPT ![r] = response]
    /\ listing' = [listing EXCEPT ![r] = None]
    /\ entity' = [entity EXCEPT ![r] = None]
    /\ UNCHANGED req

Goto(r, p) == pc' = [pc EXCEPT ![r] = p] /\ UNCHANGED <<req, answer>>

-----------------------------------------------------------------------------
(* Reception.                                                              *)

LastUsed ==
    LET used == {i \in DOMAIN Ids : \/ customers[Ids[i]] # None
                                    \/ \E r \in Requests : /\ req[r] # NoRequest
                                                           /\ req[r].id = Ids[i]}
    IN IF used = {} THEN 0 ELSE CHOOSE i \in used : \A j \in used : j <= i

\* Bound: creations are received while there is an id left.
Arrived(q) ==
    IF RouteOf(q).name = "CreateCustomer" THEN [q EXCEPT !.id = Ids[LastUsed + 1]] ELSE q

Entry(name) ==
    CASE name = "CreateCustomer"                                    -> "unique"
      [] name = "ListCustomers"                                     -> "count"
      [] name \in {"GetCustomer", "UpdateCustomer", "DeleteCustomer"} -> "find"
      [] OTHER                                                      -> "address"

Receive(r) ==
    /\ pc[r] = "idle"
    /\ \E q \in Sends[r] :
          \/ /\ Matching(q) = {}
             /\ req' = [req EXCEPT ![r] = q]
             /\ pc' = [pc EXCEPT ![r] = "respond"]
             /\ answer' = [answer EXCEPT ![r] = NotRouted(q)]
          \/ /\ Matching(q) # {} /\ Unreadable(q)
             /\ req' = [req EXCEPT ![r] = q]
             /\ pc' = [pc EXCEPT ![r] = "respond"]
             /\ answer' = [answer EXCEPT ![r] = Unexpected(q)]
          \/ /\ Matching(q) # {} /\ ~Unreadable(q) /\ ParseErrors(q) # <<>>
             /\ req' = [req EXCEPT ![r] = q]
             /\ pc' = [pc EXCEPT ![r] = "respond"]
             /\ answer' = [answer EXCEPT ![r] = Raised(q, InferEntity(q), ParseErrors(q))]
          \/ /\ Matching(q) # {} /\ ParseErrors(q) = <<>>
             /\ RouteOf(q).name = "CreateCustomer" => LastUsed < Len(Ids)
             /\ req' = [req EXCEPT ![r] = Arrived(q)]
             /\ pc' = [pc EXCEPT ![r] = Entry(RouteOf(q).name)]
             /\ UNCHANGED answer
    /\ UNCHANGED <<customers, entity, listing>>

-----------------------------------------------------------------------------
(* Requests on customers.                                                  *)

Named(q) == IF RouteOf(q).name = "CreateCustomer" THEN q.id ELSE q.path[2]

Active(c) == customers[c] # None /\ customers[c].status # "DELETED"

\* get_by_id.  The second validation of an update finds nothing: the parser has
\* called the same methods.
FindCustomer(r) ==
    LET q == req[r] IN
    /\ pc[r] = "find"
    /\ \/ /\ ~Active(Named(q))
          /\ Reply(r, Failed(q, <<Error("ERR-003", <<>>)>>))
       \/ /\ Active(Named(q)) /\ RouteOf(q).name = "GetCustomer"
          /\ Reply(r, Ok(q, None))
       \/ /\ Active(Named(q)) /\ RouteOf(q).name # "GetCustomer"
          /\ Goto(r, IF RouteOf(q).name = "UpdateCustomer" THEN "unique" ELSE "write")
          /\ entity' = [entity EXCEPT ![r] = customers[Named(q)]]
          /\ UNCHANGED listing
    /\ UNCHANGED customers

Email(q) == Normal("email", q.body.email)
Ident(q) == Normal("identification", q.body.identification)

\* Both lookups ignore DELETED rows and the customer itself.
Duplicates(q) ==
    LET others == {c \in Customers \ {Named(q)} : Active(c)} IN
    (IF \E c \in others : customers[c].email = Email(q)
     THEN <<Error("ERR-002", <<"email">>)>> ELSE <<>>)
        \o (IF \E c \in others : customers[c].ident = Ident(q)
            THEN <<Error("ERR-008", <<"identification">>)>> ELSE <<>>)

ValidationErrors(q) ==
    IF RouteOf(q).name = "CreateCustomer" THEN CreationErrors(q.body) ELSE <<>>

\* Both lookups take a key as a parameter of their statement.
KeysSendable(q) ==
    Sendable("email", q.body.email) /\ Sendable("identification", q.body.identification)

\* The validation of CreateCustomer, then the lookups.
UseCaseErrors(q) ==
    IF ValidationErrors(q) # <<>> THEN ValidationErrors(q) ELSE Duplicates(q)

EnsureUnique(r) ==
    LET q == req[r]
        raises == ValidationErrors(q) = <<>> /\ ~KeysSendable(q)
    IN
    /\ pc[r] = "unique"
    /\ \/ /\ raises
          /\ Reply(r, Unexpected(q))
       \/ /\ ~raises /\ UseCaseErrors(q) # <<>>
          /\ Reply(r, Failed(q, UseCaseErrors(q)))
       \/ /\ ~raises /\ UseCaseErrors(q) = <<>>
          /\ Goto(r, "write")
          /\ UNCHANGED <<entity, listing>>
    /\ UNCHANGED customers

\* update() assigns every attribute to the row it has read again.
Written(r) ==
    IF RouteOf(req[r]).name = "DeleteCustomer" THEN [entity[r] EXCEPT !.status = "DELETED"]
    ELSE [status |-> "ACTIVE", email |-> Email(req[r]), ident |-> Ident(req[r])]

Taken(c, key, v) == \E d \in Customers \ {c} : customers[d] # None /\ customers[d][key] = v

\* Other requests' listings between their two statements notice what becomes
\* visible or disappears.
Notice(c, row) ==
    LET comesOrGoes == Active(c) # (row.status = "ACTIVE") IN
    listing' = [s \in Requests |->
        IF listing[s] # None /\ comesOrGoes THEN [listing[s] EXCEPT !.churn = @ + 1]
        ELSE listing[s]]

\* flush of the customer: what the columns take, then the unique indexes; after it
\* the embedded addresses of a creation, one flush each; and the commit.
WriteCustomer(r) ==
    LET q == req[r]
        c == Named(q)
        row == Written(r)
        fits == RouteOf(q).name \in WithBody => CustomerFits(q.body)
        embeddedFit == RouteOf(q).name = "CreateCustomer" => EmbeddedFit(q.body)
    IN
    /\ pc[r] = "write"
    /\ \/ /\ ~fits
          /\ Reply(r, Unexpected(q))
          /\ UNCHANGED customers
       \/ /\ fits /\ Taken(c, "email", row.email)
          /\ Reply(r, Raised(q, "customer", <<Error("ERR-002", <<"email">>)>>))
          /\ UNCHANGED customers
       \/ /\ fits /\ ~Taken(c, "email", row.email) /\ Taken(c, "ident", row.ident)
          /\ Reply(r, Raised(q, "customer", <<Error("ERR-008", <<"identification">>)>>))
          /\ UNCHANGED customers
       \/ /\ fits /\ ~Taken(c, "email", row.email) /\ ~Taken(c, "ident", row.ident)
          /\ ~embeddedFit
          /\ Reply(r, Unexpected(q))
          /\ UNCHANGED customers
       \/ /\ fits /\ ~Taken(c, "email", row.email) /\ ~Taken(c, "ident", row.ident)
          /\ embeddedFit
          /\ customers' = [customers EXCEPT ![c] = row]
          /\ Notice(c, row)
          /\ pc' = [pc EXCEPT ![r] = "respond"]
          /\ answer' = [answer EXCEPT ![r] = Ok(q, None)]
          /\ entity' = [entity EXCEPT ![r] = None]
          /\ UNCHANGED req

-----------------------------------------------------------------------------
(* GET /customers.                                                         *)

ActiveIds == Keep(Ids, {c \in Customers : Active(c)})

\* int() of a query parameter, None when it is absent or no integer.
Given(arg) == IF arg.kind = "integer" THEN arg.value ELSE None

Page(q) == IF Given(q.page) = None \/ Given(q.page) < 1 THEN 1 ELSE Given(q.page)

PageSize(q) ==
    IF Given(q.size) = None \/ Given(q.size) < 1 THEN DefaultPageSize
    ELSE IF Given(q.size) < MaxPageSize THEN Given(q.size) ELSE MaxPageSize

MutOffset(q) == Page(q) * PageSize(q)

Offset(q) == (Page(q) - 1) * PageSize(q)

CountCustomers(r) ==
    /\ pc[r] = "count"
    /\ listing' = [listing EXCEPT ![r] = [total |-> Len(ActiveIds), churn |-> 0]]
    /\ Goto(r, "select")
    /\ UNCHANGED <<customers, entity>>

Shorter(m, n) == IF m < n THEN m ELSE n

SelectPage(r) ==
    LET q == req[r]
        items == SubSeq(ActiveIds, Offset(q) + 1, Shorter(Offset(q) + PageSize(q), Len(ActiveIds)))
    IN
    /\ pc[r] = "select"
    /\ \/ /\ Offset(q) > MaxBigint
          /\ Reply(r, Unexpected(q))
       \/ /\ Offset(q) <= MaxBigint
          /\ Reply(r, Ok(q, [items |-> items, total |-> listing[r].total,
                             churn |-> listing[r].churn]))
    /\ UNCHANGED customers

-----------------------------------------------------------------------------
(* Requests on addresses: the rejections of their use cases, and a text    *)
(* that no column takes.                                                   *)

Rejections(name) ==
    CASE name = "CreateAddress" -> {"ERR-003", "ERR-005"}
      [] name = "ListAddresses" -> {"ERR-003"}
      [] OTHER                  -> {"ERR-003", "ERR-004", "ERR-006"}

OnAddress(r) ==
    LET q == req[r]
        fits == RouteOf(q).name \in WithBody => AddressFits(q.body)
    IN
    /\ pc[r] = "address"
    /\ \/ \E code \in Rejections(RouteOf(q).name) : Reply(r, Failed(q, <<Error(code, <<>>)>>))
       \/ fits /\ Reply(r, Ok(q, None))
       \/ ~fits /\ Reply(r, Unexpected(q))
    /\ UNCHANGED customers

Respond(r) ==
    /\ pc[r] = "respond"
    /\ pc' = [pc EXCEPT ![r] = "idle"]
    /\ req' = [req EXCEPT ![r] = NoRequest]
    /\ answer' = [answer EXCEPT ![r] = None]
    /\ UNCHANGED <<customers, entity, listing>>

Next ==
    \E r \in Requests :
        \/ Receive(r)        \/ Respond(r)        \/ FindCustomer(r)
        \/ EnsureUnique(r)   \/ WriteCustomer(r)
        \/ CountCustomers(r) \/ SelectPage(r)     \/ OnAddress(r)

Spec == Init /\ [][Next]_vars
=============================================================================
