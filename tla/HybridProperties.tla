-------------------------- MODULE HybridProperties --------------------------
(***************************************************************************)
(* What customer-hybrid owes its clients, stated over Hybrid.              *)
(***************************************************************************)
EXTENDS Hybrid

-----------------------------------------------------------------------------
(* Safety: states.                                                         *)

\* An address always has a customer, whatever a POST or PUT had already read
\* when its customer was deleted.
NoOrphans == \A a \in Addresses : addresses[a] # None => addresses[a].owner \in customers

\* Nothing locks the customer between count_by_customer_id and the insertion,
\* nor between the probe of a PUT and its upsert, which then inserts without
\* having counted.  Still a customer exceeds the limit by no more than the
\* other requests in flight: each of them can carry one address past its check.
BoundedOvershoot ==
    \A c \in Customers :
        Cardinality(Owned(c)) <= MaxAddresses - 1 + Cardinality(Requests)

\* A client that is told its request was refused (404, 409) finds nothing
\* changed by it, and one that is told CREATED finds a row was inserted by it;
\* after 503 a change is possible only for a PUT whose new row was deleted, or
\* could not be read back, before the answer was built.
AnswerTellsEffect ==
    \A r \in Requests : pc[r] = "respond" =>
        /\ code[r] = "CREATED" => wrote[r]
        /\ code[r] \notin {"OK", "CREATED"} /\ wrote[r]
              => code[r] = "SERVICE_UNAVAILABLE" /\ req[r].op = "ReplaceAddress"

-----------------------------------------------------------------------------
(* Safety: steps.                                                          *)

\* The addresses of a customer are changed and deleted only through paths that
\* name that customer, although PUT lets any client choose the address id; and
\* no address changes hands.
OnlyOwnerTouches ==
    [][\A a \in Addresses : addresses[a] # None /\ addresses'[a] # addresses[a] =>
          /\ addresses'[a] # None => addresses'[a].owner = addresses[a].owner
          /\ \E r \in Requests :
                /\ pc[r] # pc'[r] /\ req[r].customer = addresses[a].owner
                /\ req[r].op = "DeleteCustomer" \/ req[r].address = a]_vars

-----------------------------------------------------------------------------
(* What the documents claim and the code does not keep.                    *)

\* specs/address/plan.md: update_partial overwrites only the columns present in
\* the patch and preserves the others.
DocPatchKeepsOthers ==
    [][\A r \in Requests :
          pc[r] = "updateAddress" /\ pc'[r] = "respond" /\ code'[r] = "OK" =>
              \A k \in {l \in Columns : req[r].body[l] = None} :
                  addresses'[req[r].address].texts[k] = addresses[req[r].address].texts[k]]_vars

-----------------------------------------------------------------------------
(* The inductive strengthening of the safety properties.                   *)

\* What the route and Entry guarantee about the request at a program point.
Shape(q) ==
    /\ q \in Request
    /\ q.op \in {"CreateAddress", "ReplaceAddress"} => q.body \in Texts
    /\ q.op = "PatchAddress" => q.body \in Patches
    /\ q.op \in AddressOperations \cup {"CreateAddress"} => q.address \in Addresses

Doing(p) ==
    CASE p = "count"         -> {"CreateAddress", "ReplaceAddress"}
      [] p = "insertAddress" -> {"CreateAddress"}
      [] p = "getAddress"    -> {"PatchAddress", "ReplaceAddress"}
      [] p = "updateAddress" -> {"PatchAddress"}
      [] p \in {"upsertSelect", "upsertInsert", "upsertUpdate", "refresh"} -> {"ReplaceAddress"}
      [] p = "deleteAddress" -> {"DeleteAddress"}
      [] p = "insertCustomer" -> {"CreateCustomer"}
      [] p = "updateCustomer" -> {"UpdateCustomer"}
      [] p = "deleteCustomer" -> {"DeleteCustomer"}
      [] p = "read" -> {"GetCustomer", "ListCustomers", "GetAddress", "ListAddresses"}
      [] OTHER -> AllOperations

\* A request in flight is one a client can send, is at a point of its own
\* operation, and holds an entity where one is going to be written.
RequestInv ==
    \A r \in Requests :
        /\ pc[r] # "idle" => Shape(req[r]) /\ req[r].op \in Doing(pc[r])
        /\ pc[r] = "updateAddress" => entity[r] \in Texts

\* Only the last step of a request has written, and of a PUT its INSERT.
WroteInv ==
    \A r \in Requests : wrote[r] => pc[r] \in {"refresh", "respond"}

RefreshInv ==
    \A r \in Requests : pc[r] = "refresh" => wrote[r]

AnswerInv == WroteInv /\ RefreshInv /\ AnswerTellsEffect

\* The addresses requests may still insert for c: past the check of the limit,
\* or of a PUT that found its address.
Targets(c) ==
    {req[r].address : r \in {q \in Requests :
        /\ pc[q] \in {"insertAddress", "upsertSelect", "upsertInsert"}
        /\ req[q].customer = c}}

LimitInv ==
    \A c \in Customers :
        Cardinality(Owned(c) \cup Targets(c)) <= MaxAddresses - 1 + Cardinality(Requests)

HybridInv == TypeOK /\ RequestInv /\ NoOrphans /\ AnswerInv /\ LimitInv
=============================================================================
