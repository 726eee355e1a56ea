------------------------------- MODULE MCSdd --------------------------------
(***************************************************************************)
(* Small instances of SddService for TLC: two or three request threads     *)
(* over a database that is empty or holds one or two customers.            *)
(***************************************************************************)
EXTENDS SddRefinement, TLC

CONSTANTS c1, c2, c3, a1, a2, a3, e1, e2, i1, i2, r1, r2, r3

Row(s, e, i) == [status |-> s, email |-> e, ident |-> i]
Owned(c, s)  == [owner |-> c, status |-> s]

\* Nothing yet: every id is fresh, and creations race with each other.
NoCustomer     == [c \in Customers |-> None]
NoAddress      == [a \in Addresses |-> None]

\* One customer with two addresses (the limit of these runs), one free id.
OneCustomer    == [c \in Customers |-> IF c = c1 THEN Row("ACTIVE", e1, i1) ELSE None]
TwoAddresses   == [a \in Addresses |-> IF a \in {a1, a2} THEN Owned(c1, "ACTIVE") ELSE None]

\* Two customers, the second without addresses.
TwoCustomers   == [c \in Customers |->
                      CASE c = c1 -> Row("ACTIVE", e1, i1)
                        [] c = c2 -> Row("ACTIVE", e2, i2)
                        [] OTHER  -> None]
OneAddress     == [a \in Addresses |-> IF a = a1 THEN Owned(c1, "ACTIVE") ELSE None]

\* Threads are interchangeable, and so is what no initial row names: in a database
\* without customers everything, with customers the ids of addresses.
AddressSymmetry  == Permutations(Requests) \cup Permutations(Addresses)
CustomerSymmetry == AddressSymmetry \cup Permutations(Customers)
                        \cup Permutations(Emails) \cup Permutations(Idents)
=============================================================================
