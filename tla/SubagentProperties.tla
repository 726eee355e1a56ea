------------------------- MODULE SubagentProperties -------------------------
(***************************************************************************)
(* What customer-subagent owes its clients, stated over Subagent.          *)
(***************************************************************************)
EXTENDS Subagent

-----------------------------------------------------------------------------
(* Safety: states.                                                         *)

\* No two customers, deleted ones included, share an e-mail, although a PATCH
\* that does not name the e-mail may write an old one back.
UniqueEmails ==
    \A c, d \in Customers :
        c # d /\ customers[c] # None /\ customers[d] # None
            => customers[c].email # customers[d].email

\* A client that is refused (400, 404, 409) finds nothing changed by its
\* request, and one that is told 200 or 201 to a write finds it committed;
\* only 500 leaves it open.
AnswerTellsEffect ==
    \A r \in Requests : pc[r] = "respond" =>
        /\ wrote[r] => code[r] \in {"OK", "INTERNAL"}
        /\ code[r] = "OK" => wrote[r] \/ req[r].op \in {"GetCustomer", "ListCustomers",
                                                        "GetAddress", "ListAddresses"}

-----------------------------------------------------------------------------
(* Safety: steps.                                                          *)

\* All queries filter by customer_id: an address is changed only by requests
\* whose path names its customer, never changes hands and never disappears.
Isolation ==
    [][\A a \in Addresses : addresses[a] # None /\ addresses'[a] # addresses[a] =>
          /\ addresses'[a] # None /\ addresses'[a].owner = addresses[a].owner
          /\ \E r \in Requests :
                /\ pc[r] # pc'[r] /\ req[r].address = a
                /\ req[r].customer = addresses[a].owner]_vars

Written(r) == wrote'[r] /\ ~wrote[r]

\* A request that arrived after a deletion was committed acts on it: whatever it
\* writes, it writes to a customer, and an address, that are not deleted.  Only
\* requests in flight during the deletion may undo it or add to what it removed.
DeletionsAreSeen ==
    [][\A r \in Requests : Written(r) /\ req[r].op # "CreateCustomer" =>
          /\ ActiveCustomer(req[r].customer) \/ req[r].customer \in overlapped[r]
          /\ req[r].op \in OnOneAddress => FoundAddress(req[r]) \/ req[r].address \in overlapped[r]
      ]_vars

-----------------------------------------------------------------------------
(* What the documents claim and the code does not keep.                    *)

\* specs/implementation-plan.md: the success of DELETE /customers/:id is a soft
\* delete: the customer of a deletion that is being answered with 200 is deleted.
DocDeleted ==
    \A r \in Requests :
        pc[r] = "respond" /\ code[r] = "OK" /\ req[r].op = "DeleteCustomer"
            => ~ActiveCustomer(req[r].customer)

-----------------------------------------------------------------------------
(* The inductive strengthening of the safety properties.                   *)

OnOneCustomer == {"UpdateCustomer", "DeleteCustomer"}
Changes == {"CreateCustomer", "CreateAddress", "UpdateAddress", "DeleteAddress"} \cup OnOneCustomer

\* What the parsers guarantee about a request.
Shape(q) ==
    /\ q \in Request
    /\ q.op # "ListCustomers" => q.customer \in Customers
    /\ q.op \in OnOneAddress \cup {"CreateAddress"} => q.address \in Addresses
    /\ q.op = "CreateCustomer" => q.email \in Emails

Doing(p) ==
    CASE p = "insertCustomer"       -> {"CreateCustomer"}
      [] p = "getCustomer"          -> Operations \ {"CreateCustomer", "ListCustomers"}
      [] p = "getAddress"           -> OnOneAddress
      [] p = "insertAddress"        -> {"CreateAddress"}
      [] p \in {"reload", "write"}  -> {"UpdateAddress", "DeleteAddress"} \cup OnOneCustomer
      [] p = "refresh"              -> Changes
      [] p = "list"                 -> {"ListCustomers", "ListAddresses"}
      [] OTHER                      -> Operations

Changing(r) == pc[r] \in {"reload", "write"}

\* A request in flight is at a point of its own operation; one that is going to
\* write a row holds an entity of it, deleted only by a deletion, and has read
\* the row again before it writes.
RequestInv ==
    \A r \in Requests :
        /\ pc[r] # "idle" => Shape(req[r]) /\ req[r].op \in Doing(pc[r])
        /\ Changing(r) =>
              /\ entity[r] \in IF req[r].op \in OnOneAddress THEN AddressRow ELSE CustomerRow
              /\ req[r].op \in {"UpdateCustomer", "UpdateAddress"} => entity[r].deleted = FALSE
        /\ pc[r] = "write" =>
              loaded[r] \in IF req[r].op \in OnOneAddress THEN AddressRow ELSE CustomerRow

\* Rows are never removed: the ones a request has found are still there, and
\* an address still belongs to the customer it was found under.
RowsInv ==
    \A r \in Requests : Changing(r) =>
        /\ req[r].op \in OnOneCustomer => customers[req[r].customer] # None
        /\ req[r].op \in OnOneAddress => OwnAddress(req[r])

\* The id of an address that is going to be inserted is nobody else's.
FreshInv ==
    \A r \in Requests :
        req[r].op = "CreateAddress" /\ pc[r] \in {"getCustomer", "insertAddress"} =>
            /\ addresses[req[r].address] = None
            /\ \A o \in Requests \ {r} :
                  req[o].op = "CreateAddress" => req[o].address # req[r].address

\* What a request has found is active, or was deleted while it was in flight.
SeenInv ==
    \A r \in Requests :
        /\ pc[r] \in {"getAddress", "insertAddress", "reload", "write"} =>
              ActiveCustomer(req[r].customer) \/ req[r].customer \in overlapped[r]
        /\ Changing(r) /\ req[r].op \in OnOneAddress =>
              FoundAddress(req[r]) \/ req[r].address \in overlapped[r]

\* A request has written exactly when it reads its row back, until it answers.
AnswerInv ==
    /\ AnswerTellsEffect
    /\ \A r \in Requests : /\ wrote[r] => pc[r] \in {"refresh", "respond"}
                           /\ pc[r] = "refresh" => wrote[r]

SubagentInv ==
    TypeOK /\ RequestInv /\ RowsInv /\ FreshInv /\ SeenInv /\ AnswerInv /\ UniqueEmails
=============================================================================
