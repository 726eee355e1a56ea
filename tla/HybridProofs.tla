---------------------------- MODULE HybridProofs ----------------------------
(***************************************************************************)
(* Proofs, for every value of the constants, of the safety properties of   *)
(* Hybrid.                                                                 *)
(***************************************************************************)
EXTENDS HybridProperties, FiniteSetTheorems, TLAPS

-----------------------------------------------------------------------------
(* Requests.                                                               *)

\* A request that arrives has the shape of its operation, and its entry point
\* is a point of that operation.
LEMMA IncomingShape ==
    ASSUME NEW q \in Incoming
    PROVE  /\ Shape(q)
           /\ Entry[q.op] \in Points \ {"idle", "respond", "refresh", "updateAddress",
                                        "insertAddress", "upsertSelect", "upsertInsert"}
           /\ q.op \in Doing(Entry[q.op])
           /\ Refusals(q) \subseteq {"INVALID_UUID", "UNHANDLED"}
<1>1. Texts \subseteq Patches
  BY DEF Texts, Patches
<1>2. Shape(q)
  BY <1>1 DEF Incoming, Shape, Request, FreshCustomers, NamedCustomers, FreshAddresses,
       NamedAddresses, AllOperations, CustomerOperations, AddressOperations
<1>3. q.op \in AllOperations
  BY <1>2 DEF Shape, Request
<1>4. /\ Entry[q.op] \in Points \ {"idle", "respond", "refresh", "updateAddress",
                                   "insertAddress", "upsertSelect", "upsertInsert"}
      /\ q.op \in Doing(Entry[q.op])
  BY <1>3 DEF AllOperations, CustomerOperations, AddressOperations, Entry, Points, Doing
<1> QED
  BY <1>2, <1>4 DEF Refusals

\* Merging a patch into the texts of an address gives texts.
LEMMA PatchedTexts ==
    ASSUME NEW texts \in Texts, NEW patch \in Patches
    PROVE  Patched(texts, patch) \in Texts
BY DEF Texts, Patches, Patched

\* The fields a statement uses exist: its request is the one of its point.
LEMMA Fields ==
    ASSUME TypeOK, RequestInv, NEW r \in Requests, pc[r] # "idle"
    PROVE  /\ req[r] \in Request
           /\ req[r].customer \in Customers
           /\ req[r].op \in Doing(pc[r])
           /\ pc[r] \in {"insertAddress", "upsertSelect", "upsertInsert", "upsertUpdate", "count"}
                 => req[r].address \in Addresses /\ req[r].body \in Texts
           /\ pc[r] \in {"getAddress", "updateAddress", "deleteAddress", "refresh"}
                 => req[r].address \in Addresses
BY DEF RequestInv, Shape, Request, Doing, AddressOperations

-----------------------------------------------------------------------------
(* Types.                                                                  *)

Step(r) ==
    \/ Receive(r)        \/ Answer(r)         \/ StatementFails(r)
    \/ InsertCustomer(r) \/ UpdateCustomer(r) \/ DeleteCustomer(r) \/ Read(r)
    \/ CountAddresses(r) \/ InsertAddress(r)  \/ Refresh(r)
    \/ GetAddress(r)     \/ UpsertSelect(r)   \/ UpdateAddress(r)  \/ DeleteAddress(r)

\* Every action keeps the types.
LEMMA TypeStep ==
    ASSUME TypeOK, RequestInv, [Next]_vars
    PROVE  TypeOK'
<1>1. CASE UNCHANGED vars
  BY <1>1 DEF TypeOK, vars
<1>2. SUFFICES ASSUME NEW r \in Requests, Step(r)
               PROVE  TypeOK'
  BY <1>1 DEF Next, Step
<1> USE DEF TypeOK
<1> DEFINE q == req[r]
<1>3. CASE Receive(r)
  <2>1. PICK i \in Incoming :
             /\ req' = [req EXCEPT ![r] = i]
             /\ \/ /\ pc' = [pc EXCEPT ![r] = Entry[i.op]]
                   /\ UNCHANGED code
                \/ \E c \in Refusals(i) :
                      /\ pc' = [pc EXCEPT ![r] = "respond"]
                      /\ code' = [code EXCEPT ![r] = c]
    BY <1>3 DEF Receive
  <2>2. Shape(i) /\ Entry[i.op] \in Points /\ Refusals(i) \subseteq Codes
    BY IncomingShape DEF Codes
  <2>3. i \in Request /\ "respond" \in Points
    BY <2>2 DEF Shape, Points
  <2> QED
    BY <1>3, <2>1, <2>2, <2>3 DEF Receive
<1>4. CASE Answer(r)
  BY <1>4 DEF Answer, Points, Codes
<1>5. CASE StatementFails(r)
  BY <1>5, BoundsAssumption DEF StatementFails, Reply, Points, Codes
<1>6. CASE InsertCustomer(r)
  <2>1. q.customer \in Customers
    BY <1>6, Fields DEF InsertCustomer
  <2> QED
    BY <1>6, <2>1 DEF InsertCustomer, Reply, Wrote, Points, Codes
<1>7. CASE UpdateCustomer(r)
  BY <1>7 DEF UpdateCustomer, Reply, Points, Codes
<1>8. CASE DeleteCustomer(r)
  BY <1>8 DEF DeleteCustomer, Cascade, Reply, Points, Codes
<1>9. CASE Read(r)
  BY <1>9 DEF Read, Reading, Reply, Points, Codes
<1>10. CASE CountAddresses(r)
  BY <1>10 DEF CountAddresses, Reading, Goto, Reply, Points, Codes
<1>11. CASE InsertAddress(r)
  <2>1. /\ q.address \in Addresses
        /\ [owner |-> q.customer, texts |-> q.body] \in AddressRow
    BY <1>11, Fields DEF InsertAddress, AddressRow
  <2>2. (addresses \in [Addresses -> AddressRow \cup {None}])'
    BY <1>11, <2>1 DEF InsertAddress
  <2> QED
    BY <1>11, <2>2 DEF InsertAddress, Wrote, Goto, Reply, Points, Codes
<1>12. CASE Refresh(r)
  BY <1>12 DEF Refresh, Reading, Reply, Gone, Points, Codes
<1>13. CASE GetAddress(r)
  <2>1. q.op = "PatchAddress" /\ Found(q) => Patched(addresses[q.address].texts, q.body) \in Texts
    BY <1>13, Fields, PatchedTexts DEF GetAddress, RequestInv, Shape, Found, AddressRow
  <2>2. (entity \in [Requests -> Texts \cup {None}])'
    BY <1>13, <2>1 DEF GetAddress
  <2> QED
    BY <1>13, <2>2 DEF GetAddress, Reading, Goto, Reply, Points, Codes
<1>14. CASE UpsertSelect(r)
  BY <1>14 DEF UpsertSelect, Reading, Goto, Points
<1>15. CASE UpdateAddress(r)
  <2> DEFINE texts == IF pc[r] = "updateAddress" THEN entity[r] ELSE q.body
  <2>1. q.address \in Addresses /\ texts \in Texts
    BY <1>15, Fields DEF UpdateAddress, RequestInv
  <2>2. Found(q) => [addresses[q.address] EXCEPT !.texts = texts] \in AddressRow
    BY <2>1 DEF Found, AddressRow
  <2>3. (addresses \in [Addresses -> AddressRow \cup {None}])'
    BY <1>15, <2>1, <2>2 DEF UpdateAddress
  <2> QED
    BY <1>15, <2>3 DEF UpdateAddress, Wrote, Reply, Points, Codes
<1>16. CASE DeleteAddress(r)
  BY <1>16 DEF DeleteAddress, Wrote, Reply, Points, Codes
<1> QED
  BY <1>2, <1>3, <1>4, <1>5, <1>6, <1>7, <1>8, <1>9, <1>10, <1>11, <1>12, <1>13, <1>14,
     <1>15, <1>16 DEF Step

-----------------------------------------------------------------------------
(* Requests stay at points of their own operation.                         *)

\* A step of r leaves the other requests where they are.
LEMMA OtherRequests ==
    ASSUME TypeOK, NEW r \in Requests, Step(r)
    PROVE  \A o \in Requests \ {r} :
               /\ pc'[o] = pc[o]         /\ req'[o] = req[o]   /\ entity'[o] = entity[o]
               /\ code'[o] = code[o]     /\ wrote'[o] = wrote[o]
<1> USE DEF TypeOK, Goto, Reply, Reading, Wrote
<1>1. CASE Receive(r) \/ Answer(r) \/ StatementFails(r)
  BY <1>1 DEF Receive, Answer, StatementFails
<1>2. CASE InsertCustomer(r) \/ UpdateCustomer(r) \/ DeleteCustomer(r) \/ Read(r)
  BY <1>2 DEF InsertCustomer, UpdateCustomer, DeleteCustomer, Read
<1>3. CASE CountAddresses(r) \/ InsertAddress(r) \/ Refresh(r)
  BY <1>3 DEF CountAddresses, InsertAddress, Refresh
<1>4. CASE GetAddress(r) \/ UpsertSelect(r) \/ UpdateAddress(r) \/ DeleteAddress(r)
  BY <1>4 DEF GetAddress, UpsertSelect, UpdateAddress, DeleteAddress
<1> QED
  BY <1>1, <1>2, <1>3, <1>4 DEF Step

\* The request that takes the step stays well formed.
LEMMA RequestStep ==
    ASSUME TypeOK, RequestInv, NEW r \in Requests, Step(r)
    PROVE  RequestInv'
<1> DEFINE q == req[r]
<1>1. SUFFICES /\ pc'[r] # "idle" => Shape(req'[r]) /\ req'[r].op \in Doing(pc'[r])
               /\ pc'[r] = "updateAddress" => entity'[r] \in Texts
  BY OtherRequests DEF RequestInv, Shape
<1>2. CASE Receive(r)
  <2>1. PICK i \in Incoming :
             /\ req' = [req EXCEPT ![r] = i]
             /\ \/ pc' = [pc EXCEPT ![r] = Entry[i.op]]
                \/ pc' = [pc EXCEPT ![r] = "respond"]
    BY <1>2 DEF Receive
  <2>2. Shape(i) /\ i.op \in Doing(Entry[i.op]) /\ Entry[i.op] # "updateAddress"
    BY IncomingShape
  <2>3. i.op \in Doing("respond")
    BY <2>2 DEF Shape, Request, Doing
  <2> QED
    BY <2>1, <2>2, <2>3 DEF TypeOK
<1>3. CASE Answer(r)
  BY <1>3 DEF Answer, TypeOK
<1>4. ASSUME ~Receive(r), ~Answer(r)
      PROVE  pc[r] # "idle" /\ Shape(q) /\ q.op \in AllOperations /\ req' = req
  BY <1>4 DEF Step, RequestInv, Shape, Request, StatementFails, InsertCustomer, UpdateCustomer,
         DeleteCustomer, Read, CountAddresses, InsertAddress, Refresh, GetAddress, UpsertSelect,
         UpdateAddress, DeleteAddress, Goto, Reply
<1>5. ASSUME ~Receive(r), ~Answer(r), pc'[r] = "respond"
      PROVE  q.op \in Doing(pc'[r])
  BY <1>4, <1>5 DEF Doing
<1>6. CASE \/ StatementFails(r) \/ InsertCustomer(r) \/ UpdateCustomer(r) \/ DeleteCustomer(r)
           \/ Read(r) \/ Refresh(r) \/ UpdateAddress(r) \/ DeleteAddress(r)
  <2>1. pc'[r] = "respond" /\ ~Receive(r) /\ ~Answer(r)
    BY <1>6 DEF TypeOK, StatementFails, InsertCustomer, UpdateCustomer, DeleteCustomer, Read,
           Refresh, UpdateAddress, DeleteAddress, Reply, Receive, Answer
  <2> QED
    BY <1>4, <1>5, <2>1
<1>7. CASE CountAddresses(r)
  <2>1. q.op \in {"CreateAddress", "ReplaceAddress"} /\ ~Receive(r) /\ ~Answer(r)
    BY <1>7 DEF CountAddresses, RequestInv, Doing, Receive, Answer
  <2>2. \/ pc'[r] = "insertAddress" /\ q.op = "CreateAddress"
        \/ pc'[r] = "upsertSelect" /\ q.op = "ReplaceAddress"
        \/ pc'[r] = "respond"
    BY <1>7, <2>1 DEF CountAddresses, Goto, Reply, TypeOK
  <2> QED
    BY <1>4, <2>1, <2>2 DEF Doing
<1>8. CASE InsertAddress(r)
  <2>1. ~Receive(r) /\ ~Answer(r)
    BY <1>8 DEF InsertAddress, Receive, Answer
  <2>2. \/ pc'[r] = "refresh" /\ q.op = "ReplaceAddress"
        \/ pc'[r] = "respond"
    BY <1>8 DEF InsertAddress, Goto, Reply, TypeOK, RequestInv, Doing
  <2> QED
    BY <1>4, <2>1, <2>2 DEF Doing
<1>9. CASE GetAddress(r) \/ UpsertSelect(r)
  <2>1. ~Receive(r) /\ ~Answer(r)
    BY <1>9 DEF GetAddress, UpsertSelect, Receive, Answer
  <2>2. \/ /\ pc'[r] \in {"upsertSelect", "count", "upsertInsert", "upsertUpdate"}
           /\ q.op = "ReplaceAddress"
        \/ pc'[r] = "updateAddress" /\ q.op = "PatchAddress" /\ entity'[r] \in Texts
        \/ pc'[r] = "respond"
    <3>1. CASE GetAddress(r)
      <4>1. Found(q) /\ q.op = "PatchAddress" => Patched(addresses[q.address].texts, q.body) \in Texts
        BY <3>1, Fields, PatchedTexts DEF GetAddress, RequestInv, Shape, Found, AddressRow, TypeOK
      <4> QED
        BY <3>1, <4>1 DEF GetAddress, Goto, Reply, TypeOK
    <3>2. CASE UpsertSelect(r)
      BY <3>2 DEF UpsertSelect, Goto, TypeOK, RequestInv, Doing
    <3> QED
      BY <1>9, <3>1, <3>2
  <2> QED
    BY <1>4, <2>1, <2>2 DEF Doing
<1> QED
  BY <1>2, <1>3, <1>6, <1>7, <1>8, <1>9 DEF Step

-----------------------------------------------------------------------------
(* What a step does to the tables.                                         *)

Inserts(r) ==
    /\ InsertAddress(r) /\ Insertable(req[r])
    /\ addresses' = [addresses EXCEPT ![req[r].address] =
                        [owner |-> req[r].customer, texts |-> req[r].body]]

\* Every change of an address is an insertion under an existing customer, a
\* change of the texts of the row the request names, its deletion, or the
\* cascade of the deletion of its customer.
LEMMA AddressChange ==
    ASSUME TypeOK, RequestInv, NEW r \in Requests, Step(r)
    PROVE  \/ Inserts(r) /\ UNCHANGED customers
           \/ /\ \A a \in Addresses : addresses'[a] # addresses[a] =>
                    /\ addresses[a] # None /\ addresses[a].owner = req[r].customer
                    /\ addresses'[a] # None => addresses'[a].owner = addresses[a].owner
                    /\ pc'[r] # pc[r]
                    /\ req[r].op = "DeleteCustomer" \/ req[r].address = a
              /\ \/ customers \subseteq customers'
                 \/ /\ customers' = customers \ {req[r].customer}
                    /\ \A a \in Addresses : addresses'[a] # None =>
                          addresses'[a].owner # req[r].customer
<1> USE DEF TypeOK
<1>1. CASE UNCHANGED <<customers, addresses>>
  BY <1>1
<1>2. CASE InsertCustomer(r)
  BY <1>2 DEF InsertCustomer
<1>3. CASE DeleteCustomer(r)
  <2>1. req[r].op = "DeleteCustomer" /\ pc'[r] # pc[r]
    BY <1>3, Fields DEF DeleteCustomer, Doing, Reply
  <2>2. /\ customers' = customers \ {req[r].customer}
        /\ \A a \in Addresses :
              addresses'[a] = IF a \in Owned(req[r].customer) THEN None ELSE addresses[a]
    BY <1>3 DEF DeleteCustomer, Cascade
  <2> QED
    BY <2>1, <2>2 DEF Owned
<1>4. CASE InsertAddress(r)
  BY <1>4, <1>1 DEF InsertAddress, Inserts
<1>5. CASE UpdateAddress(r)
  <2> DEFINE texts == IF pc[r] = "updateAddress" THEN entity[r] ELSE req[r].body
  <2>1. req[r].address \in Addresses /\ pc'[r] # pc[r] /\ UNCHANGED customers
    BY <1>5, Fields DEF UpdateAddress, Reply
  <2>2. \/ UNCHANGED addresses
        \/ /\ Found(req[r])
           /\ addresses' = [addresses EXCEPT ![req[r].address].texts = texts]
    BY <1>5 DEF UpdateAddress
  <2>3. Found(req[r]) =>
           [addresses[req[r].address] EXCEPT !.texts = texts].owner = addresses[req[r].address].owner
    BY <2>1 DEF Found, AddressRow
  <2> QED
    BY <2>1, <2>2, <2>3 DEF Found
<1>6. CASE DeleteAddress(r)
  <2>1. req[r].address \in Addresses /\ pc'[r] # pc[r] /\ UNCHANGED customers
    BY <1>6, Fields DEF DeleteAddress, Reply
  <2> QED
    BY <1>6, <2>1 DEF DeleteAddress, Found
<1>7. CASE Receive(r) \/ Answer(r) \/ StatementFails(r) \/ UpdateCustomer(r)
  BY <1>7, <1>1 DEF Receive, Answer, StatementFails, UpdateCustomer
<1>8. CASE Read(r) \/ CountAddresses(r) \/ Refresh(r) \/ GetAddress(r) \/ UpsertSelect(r)
  BY <1>8, <1>1 DEF Read, CountAddresses, Refresh, GetAddress, UpsertSelect, Reading
<1> QED
  BY <1>2, <1>3, <1>4, <1>5, <1>6, <1>7, <1>8 DEF Step

\* An insertion finds its customer and a free id.
LEMMA Insertion ==
    ASSUME TypeOK, RequestInv, NEW r \in Requests, Inserts(r)
    PROVE  /\ req[r].address \in Addresses /\ req[r].customer \in customers
           /\ addresses[req[r].address] = None
           /\ addresses'[req[r].address].owner = req[r].customer
           /\ \A a \in Addresses \ {req[r].address} : addresses'[a] = addresses[a]
<1>1. req[r].address \in Addresses
  BY Fields DEF Inserts, InsertAddress
<1> QED
  BY <1>1 DEF Inserts, Insertable, TypeOK

\* A customer is deleted together with its addresses, and no address is
\* inserted without one.
LEMMA OrphanStep ==
    ASSUME TypeOK, RequestInv, NoOrphans, NEW r \in Requests, Step(r)
    PROVE  NoOrphans'
<1>1. CASE Inserts(r) /\ UNCHANGED customers
  BY <1>1, Insertion DEF NoOrphans
<1>2. CASE ~(Inserts(r) /\ UNCHANGED customers)
  <2>1. SUFFICES ASSUME NEW a \in Addresses, addresses'[a] # None
                 PROVE  addresses'[a].owner \in customers'
    BY DEF NoOrphans
  <2>2. addresses[a] # None /\ addresses'[a].owner = addresses[a].owner
    BY <1>2, <2>1, AddressChange
  <2> QED
    BY <1>2, <2>1, <2>2, AddressChange DEF NoOrphans
<1> QED
  BY <1>1, <1>2

-----------------------------------------------------------------------------
(* Answers.                                                                *)

\* A request writes in the last step before its answer or, as a PUT, before
\* the row is read back.
LEMMA AnswerStep ==
    ASSUME TypeOK, RequestInv, AnswerInv, NEW r \in Requests, Step(r)
    PROVE  AnswerInv'
<1> DEFINE Told(p, c, w) ==
      /\ w => p \in {"refresh", "respond"}
      /\ p = "refresh" => w
      /\ p = "respond" /\ c = "CREATED" => w
      /\ p = "respond" /\ c \notin {"OK", "CREATED"} /\ w =>
            c = "SERVICE_UNAVAILABLE" /\ req[r].op = "ReplaceAddress"
<1> USE DEF TypeOK, Goto, Reply, Reading, Wrote
<1>1. Told(pc[r], code[r], wrote[r])
  BY DEF AnswerInv, WroteInv, RefreshInv, AnswerTellsEffect
<1>2. SUFFICES Told(pc'[r], code'[r], wrote'[r]) /\ (pc'[r] = "respond" /\ wrote'[r] => UNCHANGED req)
  BY OtherRequests DEF AnswerInv, WroteInv, RefreshInv, AnswerTellsEffect
<1>3. CASE Receive(r)
  <2>1. wrote'[r] = FALSE
    BY <1>1, <1>3 DEF Receive
  <2>2. pc'[r] # "refresh" /\ (pc'[r] = "respond" => code'[r] # "CREATED")
    BY <1>3, IncomingShape DEF Receive
  <2> QED
    BY <2>1, <2>2
<1>4. CASE Answer(r)
  BY <1>4 DEF Answer
<1>5. CASE StatementFails(r)
  BY <1>1, <1>5, Fields DEF StatementFails, Doing
<1>6. CASE InsertCustomer(r) \/ UpdateCustomer(r) \/ DeleteCustomer(r) \/ Read(r)
  BY <1>1, <1>6 DEF InsertCustomer, UpdateCustomer, DeleteCustomer, Read
<1>7. CASE CountAddresses(r)
  BY <1>1, <1>7 DEF CountAddresses
<1>8. CASE InsertAddress(r)
  BY <1>1, <1>8 DEF InsertAddress
<1>9. CASE Refresh(r)
  BY <1>1, <1>9, Fields DEF Refresh, Gone, Doing
<1>10. CASE GetAddress(r)
  BY <1>1, <1>10 DEF GetAddress
<1>11. CASE UpsertSelect(r)
  BY <1>1, <1>11 DEF UpsertSelect
<1>12. CASE UpdateAddress(r)
  BY <1>1, <1>12 DEF UpdateAddress
<1>13. CASE DeleteAddress(r)
  BY <1>1, <1>13 DEF DeleteAddress
<1> QED
  BY <1>3, <1>4, <1>5, <1>6, <1>7, <1>8, <1>9, <1>10, <1>11, <1>12, <1>13 DEF Step

-----------------------------------------------------------------------------
(* The limit of addresses.                                                 *)

Inserting(c) ==
    {r \in Requests : /\ pc[r] \in {"insertAddress", "upsertSelect", "upsertInsert"}
                      /\ req[r].customer = c}

\* Some requests name no more addresses than there are requests.
LEMMA NamedBound ==
    ASSUME NEW S \in SUBSET Requests, NEW g
    PROVE  /\ IsFiniteSet({g[r].address : r \in S})
           /\ Cardinality({g[r].address : r \in S}) <= Cardinality(Requests)
           /\ Cardinality({g[r].address : r \in S}) \in Nat
           /\ Cardinality(Requests) \in Nat
<1> DEFINE T == {g[r].address : r \in S}
           f == [r \in S |-> g[r].address]
<1>1. IsFiniteSet(S) /\ Cardinality(S) <= Cardinality(Requests)
  BY DataAssumption, FS_Subset
<1>2. f \in Surjection(S, T)
  BY DEF Surjection
<1> HIDE DEF f, T
<1>3. IsFiniteSet(T) /\ Cardinality(T) <= Cardinality(S)
  BY <1>1, <1>2, FS_Surjection
<1>4. Cardinality(S) \in Nat /\ Cardinality(T) \in Nat /\ Cardinality(Requests) \in Nat
  BY <1>1, <1>3, DataAssumption, FS_CardinalityType
<1> QED
  BY <1>1, <1>3, <1>4 DEF T

\* A customer has finitely many addresses.
LEMMA OwnedFinite ==
    ASSUME NEW c
    PROVE  IsFiniteSet(Owned(c)) /\ Cardinality(Owned(c)) \in Nat
<1>1. Owned(c) \in SUBSET Addresses
  BY DEF Owned
<1> QED
  BY <1>1, DataAssumption, FS_Subset, FS_CardinalityType

\* What bounds a set bounds its subsets.
LEMMA Smaller ==
    ASSUME NEW S, NEW T, IsFiniteSet(T), S \subseteq T, NEW n \in Int, Cardinality(T) <= n
    PROVE  Cardinality(S) <= n
<1>1. S \in SUBSET T
  OBVIOUS
<1>2. IsFiniteSet(S) /\ Cardinality(S) <= Cardinality(T)
  BY <1>1, FS_Subset
<1>3. Cardinality(S) \in Nat /\ Cardinality(T) \in Nat
  BY <1>2, FS_CardinalityType
<1> QED
  BY <1>2, <1>3

\* Two finite sets have together at most the sum of their elements.
LEMMA Together ==
    ASSUME NEW S, NEW T, IsFiniteSet(S), IsFiniteSet(T)
    PROVE  IsFiniteSet(S \cup T) /\ Cardinality(S \cup T) <= Cardinality(S) + Cardinality(T)
<1>1. /\ IsFiniteSet(S \cup T)
      /\ Cardinality(S \cup T) = Cardinality(S) + Cardinality(T) - Cardinality(S \cap T)
  BY FS_Union
<1>2. S \cap T \in SUBSET S
  OBVIOUS
<1>3. /\ Cardinality(S \cap T) \in Nat /\ Cardinality(S) \in Nat /\ Cardinality(T) \in Nat
  BY <1>2, FS_Subset, FS_CardinalityType
<1> QED
  BY <1>1, <1>3

\* Owned and targeted addresses grow only when a request passes the check of
\* the limit, and then from an owner below it.
LEMMA LimitGrows ==
    ASSUME TypeOK, RequestInv, NEW r \in Requests, Step(r), NEW c \in Customers
    PROVE  \/ Owned(c)' \cup Targets(c)' \subseteq Owned(c) \cup Targets(c)
           \/ Owned(c)' = Owned(c) /\ Cardinality(Owned(c)) < MaxAddresses
<1> DEFINE late == {"insertAddress", "upsertSelect", "upsertInsert"}
           mine == pc[r] \in late /\ req[r].customer = c
<1>1. Targets(c)' \subseteq
        Targets(c) \cup {a \in {req'[r].address} : pc'[r] \in late /\ req'[r].customer = c}
  BY OtherRequests DEF Targets
<1>2. mine => req[r].address \in Targets(c)
  BY DEF Targets
<1>3. Owned(c)' \subseteq Owned(c) \cup Targets(c)
  <2>1. CASE Inserts(r) /\ UNCHANGED customers
    <3>1. pc[r] \in late
      BY <2>1 DEF Inserts, InsertAddress
    <3> QED
      BY <2>1, <3>1, <1>2, Insertion DEF Owned
  <2>2. CASE ~(Inserts(r) /\ UNCHANGED customers)
    BY <2>2, AddressChange DEF Owned
  <2> QED
    BY <2>1, <2>2
<1>4. CASE CountAddresses(r)
  <2>1. Owned(c)' = Owned(c) /\ req' = req
    BY <1>4 DEF CountAddresses, Reading, Goto, Reply, Owned
  <2>2. pc'[r] \in late => RoomForOneMore(Cardinality(Owned(req[r].customer)))
    BY <1>4 DEF CountAddresses, Goto, Reply, TypeOK
  <2>3. CASE pc'[r] \in late /\ req[r].customer = c
    BY <2>1, <2>2, <2>3 DEF RoomForOneMore
  <2>4. CASE ~(pc'[r] \in late /\ req[r].customer = c)
    BY <2>1, <2>4, <1>1, <1>3
  <2> QED
    BY <2>3, <2>4
<1>5. CASE GetAddress(r)
  <2>1. pc'[r] \in late => Found(req[r]) /\ req[r].address \in Addresses /\ req' = req
    BY <1>5, Fields DEF GetAddress, Goto, Reply, TypeOK
  <2>2. pc'[r] \in late /\ req'[r].customer = c => req'[r].address \in Owned(c)
    BY <2>1 DEF Found, Owned
  <2> QED
    BY <2>2, <1>1, <1>3
<1>6. ASSUME ~CountAddresses(r), ~GetAddress(r), pc'[r] \in late
      PROVE  pc[r] \in late /\ req' = req
  <2>1. CASE UpsertSelect(r)
    BY <2>1 DEF UpsertSelect, Goto
  <2>2. CASE Receive(r)
    BY <2>2, <1>6, IncomingShape DEF Receive, TypeOK
  <2>3. CASE InsertAddress(r) \/ Answer(r) \/ StatementFails(r) \/ Refresh(r)
    BY <2>3, <1>6 DEF InsertAddress, Answer, StatementFails, Refresh, Goto, Reply, TypeOK
  <2>4. CASE InsertCustomer(r) \/ UpdateCustomer(r) \/ DeleteCustomer(r) \/ Read(r)
    BY <2>4, <1>6 DEF InsertCustomer, UpdateCustomer, DeleteCustomer, Read, Reply, TypeOK
  <2>5. CASE UpdateAddress(r) \/ DeleteAddress(r)
    BY <2>5, <1>6 DEF UpdateAddress, DeleteAddress, Reply, TypeOK
  <2> QED
    BY <1>6, <2>1, <2>2, <2>3, <2>4, <2>5 DEF Step
<1>7. CASE ~CountAddresses(r) /\ ~GetAddress(r)
  BY <1>1, <1>2, <1>3, <1>6, <1>7
<1> QED
  BY <1>4, <1>5, <1>7

\* Every step keeps the bound: a request that passes the check of the limit adds
\* one target to a customer below the limit.
LEMMA LimitStep ==
    ASSUME TypeOK, RequestInv, LimitInv, NEW r \in Requests, Step(r)
    PROVE  LimitInv'
<1> SUFFICES ASSUME NEW c \in Customers
             PROVE  Cardinality(Owned(c)' \cup Targets(c)') <= MaxAddresses - 1 + Cardinality(Requests)
  BY DEF LimitInv
<1>1. IsFiniteSet(Owned(c) \cup Targets(c)) /\ MaxAddresses - 1 + Cardinality(Requests) \in Int
  <2>1. Inserting(c) \in SUBSET Requests /\ Targets(c) = {req[r1].address : r1 \in Inserting(c)}
    BY DEF Targets, Inserting
  <2>2. IsFiniteSet(Targets(c)) /\ Cardinality(Requests) \in Nat
    BY <2>1, NamedBound
  <2>3. IsFiniteSet(Owned(c) \cup Targets(c))
    BY <2>2, OwnedFinite, Together
  <2> QED
    BY <2>2, <2>3, BoundsAssumption
<1>2. CASE Owned(c)' \cup Targets(c)' \subseteq Owned(c) \cup Targets(c)
  <2>1. Cardinality(Owned(c) \cup Targets(c)) <= MaxAddresses - 1 + Cardinality(Requests)
    BY DEF LimitInv
  <2> QED
    BY <1>1, <1>2, <2>1, Smaller
<1>3. CASE Owned(c)' = Owned(c) /\ Cardinality(Owned(c)) < MaxAddresses
  <2>1. /\ IsFiniteSet(Targets(c)') /\ Cardinality(Targets(c)') <= Cardinality(Requests)
        /\ Cardinality(Targets(c)') \in Nat /\ Cardinality(Requests) \in Nat
    <3>1. Inserting(c)' \in SUBSET Requests
      BY DEF Inserting
    <3>2. Targets(c)' = {req'[r1].address : r1 \in Inserting(c)'}
      BY DEF Targets, Inserting
    <3> QED
      BY <3>1, <3>2, NamedBound
  <2>2. IsFiniteSet(Owned(c)') /\ Cardinality(Owned(c)') \in Nat
    BY <1>3, OwnedFinite
  <2>3. /\ IsFiniteSet(Owned(c)' \cup Targets(c)')
        /\ Cardinality(Owned(c)' \cup Targets(c)') <= Cardinality(Owned(c)') + Cardinality(Targets(c)')
    BY <2>1, <2>2, Together
  <2>4. Cardinality(Owned(c)' \cup Targets(c)') \in Nat
    BY <2>3, FS_CardinalityType
  <2> QED
    BY <1>3, <2>1, <2>2, <2>3, <2>4, BoundsAssumption
<1> QED
  BY <1>2, <1>3, LimitGrows

-----------------------------------------------------------------------------
(* Theorems.                                                               *)

\* The empty database and idle threads satisfy the invariant.
LEMMA InitInv == Init => HybridInv
<1> SUFFICES ASSUME Init
             PROVE  HybridInv
  OBVIOUS
<1>1. TypeOK
  BY BoundsAssumption DEF Init, TypeOK, Points, Codes
<1>2. RequestInv /\ NoOrphans /\ AnswerInv
  BY DEF Init, RequestInv, NoOrphans, AnswerInv, WroteInv, RefreshInv, AnswerTellsEffect
<1>3. ASSUME NEW c \in Customers
      PROVE  Cardinality(Owned(c) \cup Targets(c)) <= MaxAddresses - 1 + Cardinality(Requests)
  <2>1. Owned(c) \cup Targets(c) = {}
    BY DEF Init, Owned, Targets
  <2>2. Cardinality(Owned(c) \cup Targets(c)) = 0
    BY <2>1, FS_EmptySet
  <2>3. Cardinality(Requests) \in Nat
    BY FS_CardinalityType, DataAssumption
  <2> QED
    BY <2>2, <2>3, BoundsAssumption
<1> QED
  BY <1>1, <1>2, <1>3 DEF HybridInv, LimitInv

\* Every step keeps the invariant.
LEMMA StepInv == HybridInv /\ [Next]_vars => HybridInv'
<1> SUFFICES ASSUME HybridInv, [Next]_vars
             PROVE  HybridInv'
  OBVIOUS
<1>1. TypeOK'
  BY TypeStep DEF HybridInv
<1>2. CASE UNCHANGED vars
  BY <1>1, <1>2 DEF HybridInv, vars, RequestInv, NoOrphans, AnswerInv, WroteInv, RefreshInv,
         AnswerTellsEffect, LimitInv, Owned, Targets
<1>3. ASSUME NEW r \in Requests, Step(r)
      PROVE  HybridInv'
  BY <1>1, <1>3, RequestStep, OrphanStep, AnswerStep, LimitStep DEF HybridInv
<1> QED
  BY <1>2, <1>3 DEF Next, Step

\* The inductive invariant of the service: types, requests at the points of
\* their operations, no orphan, answers that tell what was written, and the
\* bound on owned and targeted addresses.
THEOREM HybridCorrect == Spec => []HybridInv
BY InitInv, StepInv, PTL DEF Spec

\* Every variable stays in its type.
THEOREM HybridTypes == Spec => []TypeOK
<1>1. HybridInv => TypeOK
  BY DEF HybridInv
<1> QED
  BY <1>1, HybridCorrect, PTL

\* No address is ever without a customer.
THEOREM HybridNoOrphans == Spec => []NoOrphans
<1>1. HybridInv => NoOrphans
  BY DEF HybridInv
<1> QED
  BY <1>1, HybridCorrect, PTL

\* The answer of a request tells whether it changed anything.
THEOREM HybridAnswers == Spec => []AnswerTellsEffect
<1>1. HybridInv => AnswerTellsEffect
  BY DEF HybridInv, AnswerInv
<1> QED
  BY <1>1, HybridCorrect, PTL

\* A customer exceeds the limit by at most the number of requests in flight
\* beside the one that may fill it.
THEOREM OvershootBounded == Spec => []BoundedOvershoot
<1>1. HybridInv => BoundedOvershoot
  <2>1. SUFFICES ASSUME HybridInv, NEW c \in Customers
                 PROVE  Cardinality(Owned(c)) <= MaxAddresses - 1 + Cardinality(Requests)
    BY DEF BoundedOvershoot
  <2>2. Inserting(c) \in SUBSET Requests /\ Targets(c) = {req[r1].address : r1 \in Inserting(c)}
    BY DEF Targets, Inserting
  <2>3. IsFiniteSet(Targets(c)) /\ Cardinality(Requests) \in Nat
    BY <2>2, NamedBound
  <2>4. IsFiniteSet(Owned(c) \cup Targets(c))
    BY <2>3, OwnedFinite, Together
  <2>5. Cardinality(Owned(c) \cup Targets(c)) <= MaxAddresses - 1 + Cardinality(Requests)
    BY <2>1 DEF HybridInv, LimitInv
  <2>6. MaxAddresses - 1 + Cardinality(Requests) \in Int
    BY <2>3, BoundsAssumption
  <2> QED
    BY <2>4, <2>5, <2>6, Smaller
<1> QED
  BY <1>1, HybridCorrect, PTL

\* A customer's addresses are touched only by requests that name the customer.
THEOREM OwnersOnly == Spec => OnlyOwnerTouches
<1> DEFINE Touch ==
      \A a \in Addresses : addresses[a] # None /\ addresses'[a] # addresses[a] =>
          /\ addresses'[a] # None => addresses'[a].owner = addresses[a].owner
          /\ \E r \in Requests :
                /\ pc[r] # pc'[r] /\ req[r].customer = addresses[a].owner
                /\ req[r].op = "DeleteCustomer" \/ req[r].address = a
<1>1. HybridInv /\ [Next]_vars => [Touch]_vars
  <2>1. SUFFICES ASSUME HybridInv, NEW r \in Requests, Step(r)
                 PROVE  Touch
    BY DEF Next, Step
  <2>2. CASE Inserts(r) /\ UNCHANGED customers
    BY <2>1, <2>2, Insertion DEF HybridInv
  <2>3. CASE ~(Inserts(r) /\ UNCHANGED customers)
    BY <2>1, <2>3, AddressChange DEF HybridInv
  <2> QED
    BY <2>2, <2>3
<1> QED
  BY <1>1, HybridCorrect, PTL DEF Spec, OnlyOwnerTouches
=============================================================================
