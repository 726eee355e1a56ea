------------------------------ MODULE Directory ------------------------------
(***************************************************************************)
(* What customer-hybrid promises, without its statements: a directory of   *)
(* customers and of addresses that belong to them.  A request acts on it   *)
(* at most once, in one step between its arrival and its answer; nobody    *)
(* sees half of a change.  A refusal means that nothing was changed, and   *)
(* is justified by the directory at that moment; a success means that the  *)
(* change was made, with one exception (Overtaken); a failure leaves a     *)
(* change open for one operation only.                                     *)
(***************************************************************************)
CONSTANTS Customers, Addresses, Requests, None

VARIABLES
    registered,  \* the customers there are
    home,        \* whose an address is, None if there is no such address
    asked,       \* what the client of a request wants, None between requests
    acted,       \* the request has changed the directory
    reply        \* how the request ends

directory == <<registered, home>>
vars == <<registered, home, asked, acted, reply>>

Init ==
    /\ registered = {}
    /\ home = [a \in Addresses |-> None]
    /\ asked = [r \in Requests |-> None]
    /\ acted = [r \in Requests |-> FALSE]
    /\ reply = [r \in Requests |-> "none"]

Questions ==
    [op : {"CreateCustomer", "UpdateCustomer", "DeleteCustomer", "GetCustomer", "ListCustomers",
           "CreateAddress", "PatchAddress", "ReplaceAddress", "DeleteAddress", "GetAddress",
           "ListAddresses"},
     customer : Customers, address : Addresses \cup {None}]

Waiting(r) == asked[r] # None /\ reply[r] = "none"

Ends(r, how) == reply' = [reply EXCEPT ![r] = how]

\* Malformed requests end at once.
Arrive(r) ==
    /\ asked[r] = None
    /\ \E q \in Questions : asked' = [asked EXCEPT ![r] = q]
    /\ \E how \in {"none", "refusal", "failure"} : Ends(r, how)
    /\ UNCHANGED <<directory, acted>>

-----------------------------------------------------------------------------
(* Changes, each in one step.                                              *)

Register(c) ==
    /\ c \notin registered
    /\ registered' = registered \cup {c}
    /\ UNCHANGED home

\* The data of the customer change, which are not part of the directory.
Edit(c) == c \in registered /\ UNCHANGED directory

\* Nobody sees the customer without its addresses, or them without it.
Remove(c) ==
    /\ c \in registered
    /\ registered' = registered \ {c}
    /\ home' = [a \in Addresses |-> IF home[a] = c THEN None ELSE home[a]]

MoveIn(c, a) ==
    /\ c \in registered /\ home[a] = None
    /\ home' = [home EXCEPT ![a] = c]
    /\ UNCHANGED registered

EditAddress(c, a) == home[a] = c /\ UNCHANGED directory

MoveOut(c, a) ==
    /\ home[a] = c
    /\ home' = [home EXCEPT ![a] = None]
    /\ UNCHANGED registered

Change(q) ==
    \/ q.op = "CreateCustomer" /\ Register(q.customer)
    \/ q.op = "UpdateCustomer" /\ Edit(q.customer)
    \/ q.op = "DeleteCustomer" /\ Remove(q.customer)
    \/ q.op \in {"CreateAddress", "ReplaceAddress"} /\ MoveIn(q.customer, q.address)
    \/ q.op \in {"PatchAddress", "ReplaceAddress"} /\ EditAddress(q.customer, q.address)
    \/ q.op = "DeleteAddress" /\ MoveOut(q.customer, q.address)

Act(r) ==
    /\ Waiting(r) /\ ~acted[r]
    /\ Change(asked[r])
    /\ acted' = [acted EXCEPT ![r] = TRUE]
    /\ \E how \in {"none", "success"} : Ends(r, how)
    /\ UNCHANGED asked

-----------------------------------------------------------------------------
(* Answers.                                                                *)

Seen(q) ==
    CASE q.op = "GetCustomer" -> q.customer \in registered
      [] q.op = "GetAddress"  -> home[q.address] = q.customer
      [] OTHER                -> q.op \in {"ListCustomers", "ListAddresses"}

\* A PUT is told 200 although its address is gone: as if the deletion came second.
Overtaken(q) == q.op = "ReplaceAddress" /\ home[q.address] # q.customer

Succeed(r) ==
    /\ Waiting(r)
    /\ acted[r] \/ Seen(asked[r]) \/ Overtaken(asked[r])
    /\ Ends(r, "success")
    /\ UNCHANGED <<directory, asked, acted>>

\* Only additions of addresses are refused for another reason than that what
\* the path names does not exist.
Justified(q) ==
    CASE q.op \in {"GetCustomer", "UpdateCustomer", "DeleteCustomer"} -> q.customer \notin registered
      [] q.op \in {"GetAddress", "PatchAddress", "DeleteAddress"}     -> home[q.address] # q.customer
      [] OTHER -> q.op \in {"CreateAddress", "ReplaceAddress"}

Refuse(r) ==
    /\ Waiting(r) /\ ~acted[r]
    /\ Justified(asked[r])
    /\ Ends(r, "refusal")
    /\ UNCHANGED <<directory, asked, acted>>

\* The database failed, or a created address could not be read back.
Fail(r) ==
    /\ Waiting(r)
    /\ acted[r] => asked[r].op = "ReplaceAddress"
    /\ Ends(r, "failure")
    /\ UNCHANGED <<directory, asked, acted>>

Leave(r) ==
    /\ reply[r] # "none"
    /\ asked' = [asked EXCEPT ![r] = None]
    /\ acted' = [acted EXCEPT ![r] = FALSE]
    /\ Ends(r, "none")
    /\ UNCHANGED directory

Next ==
    \E r \in Requests :
        \/ Arrive(r) \/ Act(r) \/ Succeed(r) \/ Refuse(r) \/ Fail(r) \/ Leave(r)

Spec == Init /\ [][Next]_vars
=============================================================================
