------------------------------ MODULE Registry ------------------------------
(***************************************************************************)
(* What customer-sdd promises, without its statements and locks: a         *)
(* register of customers and of their addresses.  A request is answered    *)
(* first, from what it noticed in the register since it arrived, and its   *)
(* change is published afterwards, in one step: nobody sees half of it.    *)
(* A refusal is justified by the register at that moment and publishes     *)
(* nothing.  A success publishes what was asked for, except the columns    *)
(* the request noticed to be as it wanted them: these it leaves alone,     *)
(* whatever became of them since.                                          *)
(***************************************************************************)
EXTENDS Naturals, FiniteSets

CONSTANTS Customers, Addresses, Emails, Idents, Requests, None, MaxAddresses,
          SeedCustomers, SeedAddresses

VARIABLES
    customers,  \* the row of every customer, None if there never was one
    addresses,  \* the row of every address
    restored,   \* the ACTIVE addresses that were DELETED once
    asked,      \* what the client of a request wants, None between requests
    noticed,    \* what the request has seen, of the facts below
    verdict,    \* the answer of the request
    faults      \* how often the database failed

register == <<customers, addresses, restored>>
vars == <<register, asked, noticed, verdict, faults>>

Init ==
    /\ customers = SeedCustomers
    /\ addresses = SeedAddresses
    /\ restored = {}
    /\ asked = [r \in Requests |-> None]
    /\ noticed = [r \in Requests |-> {}]
    /\ verdict = [r \in Requests |-> "none"]
    /\ faults = 0

Questions ==
    [op : {"CreateCustomer", "UpdateCustomer", "DeleteCustomer", "CreateAddress",
           "UpdateAddress", "DeleteAddress", "Read"},
     customer : Customers, address : Addresses \cup {None},
     email : Emails \cup {None}, ident : Idents \cup {None}, fresh : SUBSET Addresses]

\* What a row is to become.
Wanted(q) ==
    [status |-> IF q.op \in {"DeleteCustomer", "DeleteAddress"} THEN "DELETED" ELSE "ACTIVE",
     email |-> q.email, ident |-> q.ident]

\* The columns that a request compares before it writes.
Compared(q) == IF q.op = "UpdateCustomer" THEN {"status", "email", "ident"} ELSE {"status"}

There(row) == row # None /\ row.status # "DELETED"

Active(c) == {a \in Addresses : There(addresses[a]) /\ addresses[a].owner = c}

\* Another row has the key, DELETED or not.
Held(c, k, v) == \E d \in Customers \ {c} : customers[d] # None /\ customers[d][k] = v

-----------------------------------------------------------------------------
(* What a request can notice.                                              *)

CustomerThere(q) == There(customers[q.customer])

AddressThere(q) ==
    q.address # None /\ There(addresses[q.address]) /\ addresses[q.address].owner = q.customer

RivalThere(q) ==
    \E d \in Customers \ {q.customer} : There(customers[d]) /\ customers[d].email = q.email

\* What has to be noticed before a success is told.
Needed(q) ==
    CASE q.op = "CreateCustomer" -> {}
      [] q.op \in {"UpdateAddress", "DeleteAddress"} -> {"customer", "address"}
      [] OTHER -> {"customer"}

Row(q) ==
    IF q.op \in {"UpdateAddress", "DeleteAddress"} THEN addresses[q.address]
    ELSE customers[q.customer]

AsWanted(q) == {k \in Compared(q) : Row(q)[k] = Wanted(q)[k]}

-----------------------------------------------------------------------------
(* From the arrival of a request to its answer.                            *)

Waiting(r) == asked[r] # None /\ verdict[r] = "none"

\* What is malformed is refused at once, and so is a customer with too many addresses.
Arrive(r) ==
    /\ asked[r] = None
    /\ asked'[r] \in Questions
    /\ asked' = [asked EXCEPT ![r] = asked'[r]]
    /\ \E v \in {"none", "refusal"} :
          /\ v = "none" /\ asked'[r].op = "CreateCustomer"
                => Cardinality(asked'[r].fresh) <= MaxAddresses
          /\ verdict' = [verdict EXCEPT ![r] = v]
    /\ UNCHANGED <<register, noticed, faults>>

Notices(r, facts) == noticed' = [noticed EXCEPT ![r] = @ \cup facts]

Notice(r) ==
    /\ Waiting(r)
    /\ \/ Notices(r, {"customer"}) /\ CustomerThere(asked[r])
       \/ Notices(r, {"address"}) /\ "customer" \in noticed[r] /\ AddressThere(asked[r])
       \/ Notices(r, {"rival"}) /\ RivalThere(asked[r])
    /\ UNCHANGED <<register, asked, verdict, faults>>

Compare(r) ==
    /\ Waiting(r)
    /\ asked[r].op \notin {"CreateCustomer", "CreateAddress", "Read"}
    /\ Needed(asked[r]) \subseteq noticed[r]
    /\ Notices(r, AsWanted(asked[r]))
    /\ UNCHANGED <<register, asked, verdict, faults>>

Answer(r, v, kept) ==
    /\ verdict' = [verdict EXCEPT ![r] = v]
    /\ noticed' = [noticed EXCEPT ![r] = kept]
    /\ UNCHANGED <<register, asked>>

\* It may still overwrite some of the columns it noticed to be as wanted.
Succeed(r) ==
    /\ Waiting(r)
    /\ Needed(asked[r]) \subseteq noticed[r]
    /\ "rival" \notin noticed[r]
    /\ \E kept \in SUBSET (noticed[r] \cap Compared(asked[r])) : Answer(r, "success", kept)
    /\ UNCHANGED faults

\* A deletion is refused if a key that it writes back has been taken since.
Justified(q, seen) ==
    \/ q.op # "CreateCustomer" /\ ~CustomerThere(q)
    \/ /\ q.op \in {"UpdateAddress", "DeleteAddress"} /\ "customer" \in seen
       /\ ~AddressThere(q)
    \/ /\ q.op \in {"CreateCustomer", "UpdateCustomer"}
       /\ \/ "rival" \in seen
          \/ Held(q.customer, "email", q.email)
          \/ Held(q.customer, "ident", q.ident)
    \/ q.op = "DeleteCustomer" /\ \E d \in Customers \ {q.customer} : customers[d] # None
    \/ q.op = "CreateAddress" /\ Cardinality(Active(q.customer)) >= MaxAddresses

Refuse(r) ==
    /\ Waiting(r)
    /\ Justified(asked[r], noticed[r])
    /\ Answer(r, "refusal", {})
    /\ UNCHANGED faults

\* The database failed, or it had to break a deadlock with another request.
Fail(r) ==
    /\ Waiting(r)
    /\ Answer(r, "failure", {})
    /\ \/ faults' = faults + 1
       \/ faults' = faults /\ \E q \in Requests \ {r} : Waiting(q)

-----------------------------------------------------------------------------
(* Changes, each in one step, after the answer.                            *)

Replaced(row, q, kept) ==
    [status |-> IF "status" \in kept THEN row.status ELSE Wanted(q).status,
     email  |-> IF "email" \in kept THEN row.email ELSE Wanted(q).email,
     ident  |-> IF "ident" \in kept THEN row.ident ELSE Wanted(q).ident]

Register(q) ==
    /\ customers[q.customer] = None
    /\ \A a \in q.fresh : addresses[a] = None
    /\ customers' = [customers EXCEPT ![q.customer] = Wanted(q)]
    /\ addresses' = [a \in Addresses |->
                        IF a \in q.fresh THEN [owner |-> q.customer, status |-> "ACTIVE"]
                        ELSE addresses[a]]

Edit(q, kept) ==
    /\ customers[q.customer] # None
    /\ customers' = [customers EXCEPT ![q.customer] = Replaced(@, q, kept)]
    /\ UNCHANGED addresses

\* All its addresses go with it, those perhaps not that were restored.  The
\* keys of the customer may be older ones than the register has.
Remove(q, kept) ==
    /\ customers[q.customer] # None
    /\ \E e \in Emails, i \in Idents :
          customers' = [customers EXCEPT ![q.customer] =
              [status |-> IF "status" \in kept THEN @.status ELSE "DELETED",
               email |-> e, ident |-> i]]
    /\ \E gone \in SUBSET {a \in Addresses : addresses[a] # None /\ addresses[a].owner = q.customer} :
          /\ Active(q.customer) \ restored \subseteq gone
          /\ addresses' = [a \in Addresses |->
                              IF a \in gone THEN [addresses[a] EXCEPT !.status = "DELETED"]
                              ELSE addresses[a]]

\* The customer is still there, and has room for the address.
MoveIn(q) ==
    /\ CustomerThere(q)
    /\ Cardinality(Active(q.customer) \ restored) < MaxAddresses
    /\ \E a \in Addresses :
          /\ q.fresh = {a} /\ addresses[a] = None
          /\ addresses' = [addresses EXCEPT ![a] = [owner |-> q.customer, status |-> "ACTIVE"]]
    /\ UNCHANGED customers

\* EditAddress and MoveOut: the address is still the customer's.
Mark(q, kept) ==
    /\ addresses[q.address] # None /\ addresses[q.address].owner = q.customer
    /\ addresses' = [addresses EXCEPT ![q.address].status =
                        IF "status" \in kept THEN @ ELSE Wanted(q).status]
    /\ UNCHANGED customers

Change(q, kept) ==
    \/ q.op = "CreateCustomer" /\ Register(q)
    \/ q.op = "UpdateCustomer" /\ Edit(q, kept)
    \/ q.op = "DeleteCustomer" /\ Remove(q, kept)
    \/ q.op = "CreateAddress" /\ MoveIn(q)
    \/ q.op \in {"UpdateAddress", "DeleteAddress"} /\ Mark(q, kept)
    \/ q.op = "Read" /\ UNCHANGED <<customers, addresses>>

\* Whatever a change does, no two customers share a key.
KeysDiffer(rows) ==
    \A c, d \in Customers : c # d /\ rows[c] # None /\ rows[d] # None
        => rows[c].email # rows[d].email /\ rows[c].ident # rows[d].ident

Goes(r) ==
    /\ asked' = [asked EXCEPT ![r] = None]
    /\ noticed' = [noticed EXCEPT ![r] = {}]
    /\ verdict' = [verdict EXCEPT ![r] = "none"]

Publish(r) ==
    /\ verdict[r] = "success"
    /\ Change(asked[r], noticed[r])
    /\ KeysDiffer(customers')
    /\ restored' = {a \in Addresses : There(addresses'[a])
                       /\ (a \in restored \/ (addresses[a] # None /\ ~There(addresses[a])))}
    /\ Goes(r)
    /\ UNCHANGED faults

Leave(r) ==
    /\ verdict[r] \in {"refusal", "failure"}
    /\ Goes(r)
    /\ UNCHANGED <<register, faults>>

\* The database fails after the answer: the client was told of a change nobody sees.
Lose(r) ==
    /\ verdict[r] # "none"
    /\ faults' = faults + 1
    /\ Goes(r)
    /\ UNCHANGED register

Next ==
    \E r \in Requests :
        \/ Arrive(r) \/ Notice(r) \/ Compare(r) \/ Succeed(r) \/ Refuse(r) \/ Fail(r)
        \/ Publish(r) \/ Leave(r) \/ Lose(r)

Spec == Init /\ [][Next]_vars
=============================================================================
