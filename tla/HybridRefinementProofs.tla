----------------------- MODULE HybridRefinementProofs -----------------------
(***************************************************************************)
(* Hybrid implements Directory, for every value of the constants.          *)
(***************************************************************************)
EXTENDS HybridRefinement, HybridProofs

-----------------------------------------------------------------------------
(* The ids of customers being created.                                     *)

\* A step keeps FreshInv: an id is drawn fresh, and is inserted by the request
\* that drew it.
LEMMA FreshStep ==
    ASSUME TypeOK, RequestInv, FreshInv, NEW r \in Requests, Step(r)
    PROVE  FreshInv'
<1> USE DEF TypeOK
<1>1. CASE Receive(r)
  <2>1. PICK i \in Incoming :
             /\ req' = [req EXCEPT ![r] = i]
             /\ \/ pc' = [pc EXCEPT ![r] = Entry[i.op]]
                \/ pc' = [pc EXCEPT ![r] = "respond"]
    BY <1>1 DEF Receive
  <2>2. pc'[r] = "insertCustomer" => i.op = "CreateCustomer"
    BY <2>1, IncomingShape DEF Doing
  <2>3. i.op = "CreateCustomer" =>
          i.customer \notin customers /\ \A o \in Requests : req[o].customer # i.customer
    BY DEF Incoming, FreshCustomers, CustomerOperations
  <2>4. UNCHANGED customers
    BY <1>1 DEF Receive
  <2> QED
    BY <1>1, <2>1, <2>2, <2>3, <2>4, OtherRequests DEF FreshInv
<1>2. CASE ~Receive(r)
  <2>1. pc'[r] # "insertCustomer"
    BY <1>2 DEF Step, Answer, StatementFails, InsertCustomer, UpdateCustomer, DeleteCustomer, Read,
       CountAddresses, InsertAddress, Refresh, GetAddress, UpsertSelect, UpdateAddress,
       DeleteAddress, Goto, Reply
  <2>2. \/ customers' \subseteq customers
        \/ pc[r] = "insertCustomer" /\ customers' = customers \cup {req[r].customer}
    BY <1>2 DEF Step, Answer, StatementFails, InsertCustomer, UpdateCustomer, DeleteCustomer, Read,
       CountAddresses, InsertAddress, Refresh, GetAddress, UpsertSelect, UpdateAddress,
       DeleteAddress, Reading
  <2> QED
    BY <2>1, <2>2, OtherRequests DEF FreshInv
<1> QED
  BY <1>1, <1>2

-----------------------------------------------------------------------------
(* What the abstract state sees of a step.                                 *)

Between(r) == pc[r] \notin {"idle", "respond"}

\* A statement finds its request waiting; the abstract request does not change,
\* and ends as the code says when the statement answers it.
LEMMA StatementFrame ==
    ASSUME TypeOK, RequestInv, NEW r \in Requests, Step(r), ~Receive(r), ~Answer(r)
    PROVE  /\ Between(r) /\ pc'[r] # "idle" /\ req' = req
           /\ Dir!Waiting(r) /\ UNCHANGED askedBar
           /\ askedBar[r].op = req[r].op
           /\ askedBar[r].customer = req[r].customer
           /\ askedBar[r].address = req[r].address
           /\ replyBar' = [replyBar EXCEPT ![r] = IF pc'[r] = "respond" THEN Outcome(code'[r]) ELSE "none"]
<1>1. Between(r) /\ pc'[r] # "idle" /\ req' = req
  BY DEF Step, StatementFails, InsertCustomer, UpdateCustomer, DeleteCustomer, Read,
       CountAddresses, InsertAddress, Refresh, GetAddress, UpsertSelect, UpdateAddress,
       DeleteAddress, Goto, Reply, Between, TypeOK
<1>2. req[r] \in Request
  BY <1>1, Fields DEF Between
<1>3. Question(req[r]) \in Dir!Questions
  BY <1>2 DEF Question, Dir!Questions, Request, AllOperations, CustomerOperations, AddressOperations
<1>4. askedBar[r] = Question(req[r]) /\ askedBar[r] # None
  BY <1>1, <1>3, QuestionAssumption DEF askedBar, Between
<1>5. \A o \in Requests : (pc'[o] = "idle") <=> (pc[o] = "idle")
  BY <1>1, OtherRequests DEF Between
<1>6. askedBar' = askedBar
  BY <1>1, <1>5 DEF askedBar
<1>7. replyBar[r] = "none"
  BY <1>1 DEF replyBar, Between
<1>8. replyBar' = [replyBar EXCEPT ![r] = IF pc'[r] = "respond" THEN Outcome(code'[r]) ELSE "none"]
  BY OtherRequests DEF replyBar
<1>9. Dir!Waiting(r)
  BY <1>4, <1>7 DEF Dir!Waiting
<1> QED
  BY <1>1, <1>4, <1>6, <1>8, <1>9 DEF Question

\* The codes a statement can answer with, and how they end the request.
LEMMA Outcomes ==
    /\ Outcome("OK") = "success" /\ Outcome("CREATED") = "success"
    /\ Outcome("SERVICE_UNAVAILABLE") = "failure" /\ Outcome("UNHANDLED") = "failure"
    /\ Outcome("USER_NOT_FOUND") = "refusal" /\ Outcome("ADDRESS_NOT_FOUND") = "refusal"
    /\ Outcome("MAX_ADDRESSES_PER_CUSTOMER") = "refusal" /\ Outcome("INVALID_UUID") = "refusal"
BY DEF Outcome

-----------------------------------------------------------------------------
(* Every step is a step of Directory or leaves it as it is.                *)

\* An arriving request asks, and a malformed one is ended at once.
LEMMA ReceiveArrives ==
    ASSUME TypeOK, RequestInv, NEW r \in Requests, Receive(r)
    PROVE  Dir!Arrive(r)
<1> USE DEF TypeOK
<1>1. PICK i \in Incoming :
           /\ req' = [req EXCEPT ![r] = i]
           /\ \/ pc' = [pc EXCEPT ![r] = Entry[i.op]]
              \/ \E c \in Refusals(i) : pc' = [pc EXCEPT ![r] = "respond"] /\ code' = [code EXCEPT ![r] = c]
  BY DEF Receive
<1>2. i \in Request /\ Entry[i.op] \notin {"idle", "respond"} /\ Refusals(i) \subseteq {"INVALID_UUID", "UNHANDLED"}
  BY IncomingShape DEF Shape
<1>3. Question(i) \in Dir!Questions
  BY <1>2 DEF Question, Dir!Questions, Request, AllOperations, CustomerOperations, AddressOperations
<1>4. \A o \in Requests \ {r} : pc'[o] = pc[o] /\ req'[o] = req[o] /\ code'[o] = code[o]
  BY OtherRequests DEF Step
<1>5. askedBar[r] = None
  BY DEF Receive, askedBar
<1>6. req'[r] = i /\ pc'[r] # "idle"
  BY <1>1, <1>2
<1>7. askedBar' = [askedBar EXCEPT ![r] = Question(i)]
  BY <1>4, <1>6 DEF askedBar
<1>8. \E how \in {"none", "refusal", "failure"} : replyBar' = [replyBar EXCEPT ![r] = how]
  <2>1. pc'[r] = "respond" => code'[r] \in {"INVALID_UUID", "UNHANDLED"}
    BY <1>1, <1>2
  <2>2. replyBar' = [replyBar EXCEPT ![r] = IF pc'[r] = "respond" THEN Outcome(code'[r]) ELSE "none"]
    BY <1>4 DEF replyBar
  <2> QED
    BY <2>1, <2>2, Outcomes
<1>9. UNCHANGED <<customers, homeBar, wrote>>
  BY DEF Receive, homeBar
<1> QED
  BY <1>3, <1>5, <1>7, <1>8, <1>9 DEF Dir!Arrive, Dir!Ends, Dir!directory

\* An answered request is gone.
LEMMA AnswerLeaves ==
    ASSUME TypeOK, RequestInv, NEW r \in Requests, Answer(r)
    PROVE  Dir!Leave(r)
<1> USE DEF TypeOK
<1>1. \A o \in Requests \ {r} : pc'[o] = pc[o] /\ req'[o] = req[o] /\ code'[o] = code[o]
  BY OtherRequests DEF Step
<1>2. pc[r] = "respond" /\ pc'[r] = "idle" /\ wrote' = [wrote EXCEPT ![r] = FALSE]
  BY DEF Answer
<1>3. askedBar' = [askedBar EXCEPT ![r] = None]
  BY <1>1, <1>2 DEF askedBar
<1>4. replyBar' = [replyBar EXCEPT ![r] = "none"]
  BY <1>1, <1>2 DEF replyBar
<1>5. replyBar[r] # "none"
  BY <1>2 DEF replyBar, Outcome
<1>6. UNCHANGED <<customers, homeBar>>
  BY DEF Answer, homeBar
<1> QED
  BY <1>2, <1>3, <1>4, <1>5, <1>6 DEF Dir!Leave, Dir!Ends, Dir!directory

\* A statement that fails ends its request, which has changed nothing unless it
\* is a PUT that reads back its row.
LEMMA FailureFails ==
    ASSUME TypeOK, RequestInv, AnswerInv, NEW r \in Requests, StatementFails(r)
    PROVE  Dir!Fail(r)
<1> USE DEF TypeOK
<1>1. ~Receive(r) /\ ~Answer(r) /\ Step(r)
  BY DEF StatementFails, Receive, Answer, Step
<1>2. pc'[r] = "respond" /\ code'[r] \in {"UNHANDLED", "SERVICE_UNAVAILABLE"}
  BY DEF StatementFails, Reply
<1>3. replyBar' = [replyBar EXCEPT ![r] = "failure"]
  BY <1>1, <1>2, StatementFrame, Outcomes
<1>4. wrote[r] => req[r].op = "ReplaceAddress"
  BY <1>1, StatementFrame DEF AnswerInv, WroteInv, RequestInv, Doing, Between
<1>5. UNCHANGED <<customers, homeBar, wrote>>
  BY DEF StatementFails, homeBar
<1>6. wrote[r] => askedBar[r].op = "ReplaceAddress"
  BY <1>1, <1>4, StatementFrame
<1> QED
  BY <1>1, <1>3, <1>5, <1>6, StatementFrame DEF Dir!Fail, Dir!Ends, Dir!directory

Statement(r) == Step(r) /\ ~Receive(r) /\ ~Answer(r)

\* A statement that changes the directory as its request asked, and does not
\* refuse it then, is the one action of the request.
LEMMA ActsIf ==
    ASSUME TypeOK, RequestInv, AnswerInv, NEW r \in Requests, Statement(r), pc[r] # "refresh",
           Dir!Change(askedBar[r]), wrote' = [wrote EXCEPT ![r] = TRUE],
           pc'[r] = "respond" => code'[r] \in {"OK", "CREATED"}
    PROVE  Dir!Act(r)
<1>1. Between(r) /\ Dir!Waiting(r) /\ UNCHANGED askedBar
  BY StatementFrame DEF Statement
<1>2. ~wrote[r]
  BY <1>1 DEF AnswerInv, WroteInv, Between
<1>3. \E how \in {"none", "success"} : Dir!Ends(r, how)
  BY StatementFrame, Outcomes DEF Statement, Dir!Ends
<1> QED
  BY <1>1, <1>2, <1>3 DEF Dir!Act

\* A statement that changes nothing and refuses for a reason.
LEMMA RefusesIf ==
    ASSUME TypeOK, RequestInv, AnswerInv, NEW r \in Requests, Statement(r), pc[r] # "refresh",
           Dir!Justified(askedBar[r]), UNCHANGED <<customers, homeBar, wrote>>,
           pc'[r] = "respond",
           code'[r] \in {"USER_NOT_FOUND", "ADDRESS_NOT_FOUND", "MAX_ADDRESSES_PER_CUSTOMER"}
    PROVE  Dir!Refuse(r)
<1>1. Between(r) /\ Dir!Waiting(r) /\ UNCHANGED askedBar
  BY StatementFrame DEF Statement
<1>2. ~wrote[r]
  BY <1>1 DEF AnswerInv, WroteInv, Between
<1>3. Dir!Ends(r, "refusal")
  BY StatementFrame, Outcomes DEF Statement, Dir!Ends
<1> QED
  BY <1>1, <1>2, <1>3 DEF Dir!Refuse, Dir!directory

\* A statement that changes nothing and answers with success.
LEMMA SucceedsIf ==
    ASSUME TypeOK, RequestInv, NEW r \in Requests, Statement(r),
           wrote[r] \/ Dir!Seen(askedBar[r]) \/ Dir!Overtaken(askedBar[r]),
           UNCHANGED <<customers, homeBar, wrote>>,
           pc'[r] = "respond", code'[r] \in {"OK", "CREATED"}
    PROVE  Dir!Succeed(r)
<1>1. Dir!Waiting(r) /\ UNCHANGED askedBar
  BY StatementFrame DEF Statement
<1>2. Dir!Ends(r, "success")
  BY StatementFrame, Outcomes DEF Statement, Dir!Ends
<1> QED
  BY <1>1, <1>2 DEF Dir!Succeed, Dir!directory

\* A statement that changes nothing and goes on is not seen.
LEMMA UnseenIf ==
    ASSUME TypeOK, RequestInv, NEW r \in Requests, Statement(r),
           UNCHANGED <<customers, homeBar, wrote>>, pc'[r] # "respond"
    PROVE  UNCHANGED Dir!vars
<1>1. Dir!Waiting(r) /\ UNCHANGED askedBar
  BY StatementFrame DEF Statement
<1>2. replyBar' = [replyBar EXCEPT ![r] = "none"]
  BY StatementFrame DEF Statement
<1>3. replyBar' = replyBar
  BY <1>1, <1>2 DEF Dir!Waiting, replyBar
<1> QED
  BY <1>1, <1>3 DEF Dir!vars

-----------------------------------------------------------------------------
(* The statements on customers.                                            *)

\* Creating, changing and deleting a customer.
LEMMA CustomerStatements ==
    ASSUME TypeOK, RequestInv, AnswerInv, FreshInv, NoOrphans, NEW r \in Requests,
           InsertCustomer(r) \/ UpdateCustomer(r) \/ DeleteCustomer(r)
    PROVE  Dir!Act(r) \/ Dir!Refuse(r)
<1> USE DEF TypeOK
<1> DEFINE c == req[r].customer
           q == askedBar[r]
<1>1. Statement(r) /\ pc[r] # "refresh"
  BY DEF Statement, Step, InsertCustomer, UpdateCustomer, DeleteCustomer, Receive, Answer
<1>2. q.op = req[r].op /\ q.customer = c /\ Between(r)
  BY <1>1, StatementFrame DEF Statement
<1>3. ~wrote[r] /\ c \in Customers /\ req[r].op \in Doing(pc[r])
  BY <1>1, <1>2, Fields DEF AnswerInv, WroteInv, Between
<1>4. ASSUME c \notin customers, wrote' = [wrote EXCEPT ![r] = c \in customers]
      PROVE  UNCHANGED wrote
  <2>1. (c \in customers) = FALSE /\ wrote[r] = FALSE
    BY <1>3, <1>4
  <2>2. wrote' = [wrote EXCEPT ![r] = FALSE]
    BY <1>4, <2>1
  <2> QED
    BY <2>1, <2>2
<1>5. \A b \in BOOLEAN : b /\ wrote' = [wrote EXCEPT ![r] = b] => wrote' = [wrote EXCEPT ![r] = TRUE]
  OBVIOUS
<1> HIDE DEF c, q
<1>6. CASE InsertCustomer(r)
  <2>1. q.op = "CreateCustomer"
    BY <1>2, <1>3, <1>6 DEF InsertCustomer, Doing
  <2>2. c \notin customers /\ customers' = customers \cup {c} /\ UNCHANGED homeBar
    BY <1>6 DEF InsertCustomer, FreshInv, homeBar, c
  <2>3. Dir!Change(q)
    BY <1>2, <2>1, <2>2 DEF Dir!Change, Dir!Register
  <2>4. wrote' = [wrote EXCEPT ![r] = TRUE] /\ code'[r] = "CREATED"
    BY <1>6 DEF InsertCustomer, Wrote, Reply
  <2> QED
    BY <1>1, <2>3, <2>4, ActsIf DEF q
<1>7. CASE UpdateCustomer(r)
  <2>1. q.op = "UpdateCustomer"
    BY <1>2, <1>3, <1>7 DEF UpdateCustomer, Doing
  <2>2. UNCHANGED <<customers, homeBar>> /\ pc'[r] = "respond"
    BY <1>7 DEF UpdateCustomer, homeBar, Reply
  <2>3. wrote' = [wrote EXCEPT ![r] = c \in customers]
    BY <1>7 DEF UpdateCustomer, c
  <2>4. CASE c \in customers
    <3>1. Dir!Change(q)
      BY <1>2, <2>1, <2>2, <2>4 DEF Dir!Change, Dir!Edit, Dir!directory
    <3>2. code'[r] = "OK"
      BY <1>7, <2>4 DEF UpdateCustomer, Reply, c
    <3> QED
      BY <1>1, <1>5, <2>3, <2>4, <3>1, <3>2, ActsIf DEF q
  <2>5. CASE c \notin customers
    <3>1. Dir!Justified(q)
      BY <1>2, <2>1, <2>5 DEF Dir!Justified
    <3>2. code'[r] = "USER_NOT_FOUND"
      BY <1>7, <2>5 DEF UpdateCustomer, Reply, c
    <3> QED
      BY <1>1, <1>4, <2>2, <2>3, <2>5, <3>1, <3>2, RefusesIf DEF q
  <2> QED
    BY <2>4, <2>5
<1>8. CASE DeleteCustomer(r)
  <2>1. q.op = "DeleteCustomer"
    BY <1>2, <1>3, <1>8 DEF DeleteCustomer, Doing
  <2>2. customers' = customers \ {c} /\ addresses' = Cascade(c) /\ pc'[r] = "respond"
    BY <1>8 DEF DeleteCustomer, Reply, c
  <2>3. wrote' = [wrote EXCEPT ![r] = c \in customers]
    BY <1>8 DEF DeleteCustomer, c
  <2>4. homeBar' = [a \in Addresses |-> IF homeBar[a] = c THEN None ELSE homeBar[a]]
    BY <1>3, <2>2, DataAssumption DEF homeBar, Cascade, Owned
  <2>5. CASE c \in customers
    <3>1. Dir!Change(q)
      BY <1>2, <2>1, <2>2, <2>4, <2>5 DEF Dir!Change, Dir!Remove
    <3>2. code'[r] = "OK"
      BY <1>8, <2>5 DEF DeleteCustomer, Reply, c
    <3> QED
      BY <1>1, <1>5, <2>3, <2>5, <3>1, <3>2, ActsIf DEF q
  <2>6. CASE c \notin customers
    <3>1. UNCHANGED <<customers, homeBar>>
      <4>1. \A a \in Addresses : homeBar[a] # c
        BY <1>3, <2>6, DataAssumption DEF NoOrphans, homeBar
      <4>2. customers' = customers
        BY <2>2, <2>6
      <4> QED
        BY <2>4, <4>1, <4>2 DEF homeBar
    <3>2. Dir!Justified(q)
      BY <1>2, <2>1, <2>6 DEF Dir!Justified
    <3>3. code'[r] = "USER_NOT_FOUND"
      BY <1>8, <2>6 DEF DeleteCustomer, Reply, c
    <3> QED
      BY <1>1, <1>4, <2>2, <2>3, <2>6, <3>1, <3>2, <3>3, RefusesIf DEF q
  <2> QED
    BY <2>5, <2>6
<1> QED
  BY <1>6, <1>7, <1>8

-----------------------------------------------------------------------------
(* The statements on addresses.                                            *)

\* What Found says in terms of Directory.
LEMMA FoundHome ==
    ASSUME TypeOK, NEW q, q.address \in Addresses, q.customer \in Customers
    PROVE  Found(q) <=> homeBar[q.address] = q.customer
BY DataAssumption DEF TypeOK, Found, homeBar

\* Reading answers what the directory shows.
LEMMA ReadStatement ==
    ASSUME TypeOK, RequestInv, AnswerInv, NEW r \in Requests, Read(r)
    PROVE  Dir!Succeed(r) \/ Dir!Refuse(r)
<1> USE DEF TypeOK
<1> DEFINE c == req[r].customer
           a == req[r].address
           q == askedBar[r]
<1>1. Statement(r) /\ pc[r] = "read" /\ pc'[r] = "respond"
  BY DEF Statement, Step, Read, Receive, Answer, Reply
<1>2. q.op = req[r].op /\ q.customer = c /\ q.address = a /\ Between(r)
  BY <1>1, StatementFrame DEF Statement
<1>3. /\ c \in Customers
      /\ req[r].op \in {"GetCustomer", "ListCustomers", "GetAddress", "ListAddresses"}
      /\ req[r].op = "GetAddress" => a \in Addresses
  BY <1>1, Fields DEF Doing, RequestInv, Shape, AddressOperations
<1>4. UNCHANGED <<customers, homeBar, wrote>>
  BY DEF Read, Reading, homeBar
<1>5. CASE req[r].op = "GetCustomer" /\ c \notin customers
  <2>1. Dir!Justified(q) /\ code'[r] = "USER_NOT_FOUND"
    BY <1>2, <1>5 DEF Dir!Justified, Read, Reply
  <2> QED
    BY <1>1, <1>4, <2>1, RefusesIf
<1>6. CASE req[r].op = "GetAddress" /\ ~Found(req[r])
  <2>1. homeBar[a] # c
    BY <1>3, <1>6, FoundHome
  <2>2. Dir!Justified(q)
    BY <1>2, <1>6, <2>1 DEF Dir!Justified
  <2>3. code'[r] = "ADDRESS_NOT_FOUND"
    BY <1>6 DEF Read, Reply
  <2> QED
    BY <1>1, <1>4, <2>2, <2>3, RefusesIf
<1>7. CASE /\ req[r].op = "GetCustomer" => c \in customers
           /\ req[r].op = "GetAddress" => Found(req[r])
  <2>1. code'[r] = "OK"
    BY <1>7 DEF Read, Reply
  <2>2. req[r].op = "GetAddress" => homeBar[a] = c
    BY <1>3, <1>7, FoundHome
  <2>3. Dir!Seen(q)
    BY <1>2, <1>3, <1>7, <2>2 DEF Dir!Seen
  <2> QED
    BY <1>1, <1>4, <2>1, <2>3, SucceedsIf
<1> QED
  BY <1>5, <1>6, <1>7

\* The statements that look before an address is written.
LEMMA LookingStatements ==
    ASSUME TypeOK, RequestInv, AnswerInv, NEW r \in Requests,
           CountAddresses(r) \/ GetAddress(r) \/ UpsertSelect(r)
    PROVE  Dir!Refuse(r) \/ UNCHANGED Dir!vars
<1> USE DEF TypeOK
<1> DEFINE q == askedBar[r]
<1>1. Statement(r) /\ pc[r] # "refresh"
  BY DEF Statement, Step, CountAddresses, GetAddress, UpsertSelect, Receive, Answer
<1>2. /\ q.op = req[r].op /\ q.customer = req[r].customer /\ q.address = req[r].address
      /\ Between(r)
  BY <1>1, StatementFrame DEF Statement
<1>3. UNCHANGED <<customers, homeBar, wrote>>
  BY DEF CountAddresses, GetAddress, UpsertSelect, Reading, homeBar
<1>4. CASE pc'[r] # "respond"
  BY <1>1, <1>3, <1>4, UnseenIf
<1>5. CASE pc'[r] = "respond" /\ CountAddresses(r)
  <2>1. code'[r] = "MAX_ADDRESSES_PER_CUSTOMER"
    BY <1>5 DEF CountAddresses, Goto, Reply
  <2>2. req[r].op \in {"CreateAddress", "ReplaceAddress"}
    BY <1>5, Fields DEF CountAddresses, Doing
  <2>3. Dir!Justified(q)
    BY <1>2, <2>2 DEF Dir!Justified
  <2> QED
    BY <1>1, <1>3, <1>5, <2>1, <2>3, RefusesIf
<1>6. CASE pc'[r] = "respond" /\ GetAddress(r)
  <2>1. code'[r] = "ADDRESS_NOT_FOUND" /\ req[r].op = "PatchAddress" /\ ~Found(req[r])
    BY <1>6 DEF GetAddress, Goto, Reply
  <2>2. req[r].address \in Addresses /\ req[r].customer \in Customers
    BY <1>6, Fields DEF GetAddress
  <2>3. homeBar[q.address] # q.customer
    BY <1>2, <2>1, <2>2, FoundHome
  <2>4. Dir!Justified(q)
    BY <1>2, <2>1, <2>3 DEF Dir!Justified
  <2> QED
    BY <1>1, <1>3, <1>6, <2>1, <2>4, RefusesIf
<1>7. CASE pc'[r] = "respond" /\ UpsertSelect(r)
  BY <1>7 DEF UpsertSelect, Goto
<1> QED
  BY <1>4, <1>5, <1>6, <1>7

\* Inserting is moving in, and reading the inserted row back tells of it or fails.
LEMMA InsertingStatements ==
    ASSUME TypeOK, RequestInv, AnswerInv, NEW r \in Requests, InsertAddress(r) \/ Refresh(r)
    PROVE  Dir!Act(r) \/ Dir!Refuse(r) \/ Dir!Succeed(r) \/ Dir!Fail(r)
<1> USE DEF TypeOK
<1> DEFINE q == askedBar[r]
<1>1. Statement(r)
  BY DEF Statement, Step, InsertAddress, Refresh, Receive, Answer
<1>2. /\ q.op = req[r].op /\ q.customer = req[r].customer /\ q.address = req[r].address
      /\ Between(r)
  BY <1>1, StatementFrame DEF Statement
<1>3. /\ req[r].address \in Addresses /\ req[r].customer \in Customers
      /\ req[r].op \in {"CreateAddress", "ReplaceAddress"}
  BY Fields DEF InsertAddress, Refresh, Doing
<1>4. CASE InsertAddress(r) /\ Insertable(req[r])
  <2>1. addresses' = [addresses EXCEPT ![req[r].address] =
                        [owner |-> req[r].customer, texts |-> req[r].body]]
    BY <1>4 DEF InsertAddress
  <2>2. homeBar[q.address] = None /\ q.customer \in customers /\ UNCHANGED customers
    BY <1>2, <1>3, <1>4 DEF Insertable, homeBar, InsertAddress
  <2>3. [owner |-> req[r].customer, texts |-> req[r].body] # None
    <3>1. [owner |-> req[r].customer, texts |-> req[r].body] \in AddressRow
      BY <1>3, <1>4, Fields DEF InsertAddress, AddressRow
    <3> QED
      BY <3>1, DataAssumption
  <2>4. homeBar' = [homeBar EXCEPT ![q.address] = q.customer]
    BY <1>2, <1>3, <2>1, <2>3 DEF homeBar
  <2>5. Dir!Change(q)
    BY <1>2, <1>3, <2>2, <2>4 DEF Dir!Change, Dir!MoveIn
  <2>6. wrote' = [wrote EXCEPT ![r] = TRUE] /\ (pc'[r] = "respond" => code'[r] = "CREATED")
    BY <1>4 DEF InsertAddress, Wrote, Goto, Reply
  <2>7. pc[r] # "refresh"
    BY <1>4 DEF InsertAddress
  <2> QED
    BY <1>1, <2>5, <2>6, <2>7, ActsIf
<1>5. CASE InsertAddress(r) /\ ~Insertable(req[r])
  <2>1. /\ code'[r] = "USER_NOT_FOUND" /\ pc'[r] = "respond" /\ pc[r] # "refresh"
        /\ UNCHANGED <<customers, homeBar, wrote>>
    BY <1>5 DEF InsertAddress, Reply, homeBar
  <2>2. Dir!Justified(q)
    BY <1>2, <1>3 DEF Dir!Justified
  <2> QED
    BY <1>1, <2>1, <2>2, RefusesIf
<1>6. CASE Refresh(r)
  <2>1. /\ pc[r] = "refresh" /\ pc'[r] = "respond"
        /\ code'[r] \in {"CREATED", "SERVICE_UNAVAILABLE"}
        /\ UNCHANGED <<customers, homeBar, wrote>>
    BY <1>6 DEF Refresh, Reply, Reading, homeBar, Gone
  <2>2. wrote[r]
    BY <2>1 DEF AnswerInv, RefreshInv
  <2>3. CASE code'[r] = "CREATED"
    BY <1>1, <2>1, <2>2, <2>3, SucceedsIf
  <2>4. CASE code'[r] = "SERVICE_UNAVAILABLE"
    <3>1. req[r].op = "ReplaceAddress"
      BY <2>1, Fields DEF Doing
    <3>2. replyBar' = [replyBar EXCEPT ![r] = "failure"]
      BY <1>1, <2>1, <2>4, StatementFrame, Outcomes DEF Statement
    <3>3. Dir!Waiting(r) /\ UNCHANGED askedBar
      BY <1>1, StatementFrame DEF Statement
    <3> QED
      BY <1>2, <2>1, <3>1, <3>2, <3>3 DEF Dir!Fail, Dir!Ends, Dir!directory
  <2> QED
    BY <2>1, <2>3, <2>4
<1> QED
  BY <1>4, <1>5, <1>6

\* Changing an address acts or is refused, but the UPDATE of a PUT that matches
\* nothing is told as a success all the same.
LEMMA UpdateStatement ==
    ASSUME TypeOK, RequestInv, AnswerInv, NEW r \in Requests, UpdateAddress(r)
    PROVE  Dir!Act(r) \/ Dir!Refuse(r) \/ Dir!Succeed(r)
<1> USE DEF TypeOK
<1> DEFINE q == askedBar[r]
           texts == IF pc[r] = "updateAddress" THEN entity[r] ELSE req[r].body
<1>1. Statement(r) /\ pc[r] # "refresh" /\ pc'[r] = "respond"
  BY DEF Statement, Step, UpdateAddress, Receive, Answer, Reply
<1>2. /\ q.op = req[r].op /\ q.customer = req[r].customer /\ q.address = req[r].address
      /\ Between(r)
  BY <1>1, StatementFrame DEF Statement
<1>3. /\ req[r].address \in Addresses /\ req[r].customer \in Customers
      /\ req[r].op = IF pc[r] = "updateAddress" THEN "PatchAddress" ELSE "ReplaceAddress"
  BY Fields DEF UpdateAddress, Doing
<1>4. Found(req[r]) <=> homeBar[q.address] = q.customer
  BY <1>2, <1>3, FoundHome
<1>5. CASE Found(req[r])
  <2>1. addresses' = [addresses EXCEPT ![req[r].address].texts = texts]
    BY <1>5 DEF UpdateAddress
  <2>2. /\ [addresses[req[r].address] EXCEPT !.texts = texts] \in AddressRow
        /\ [addresses[req[r].address] EXCEPT !.texts = texts].owner = addresses[req[r].address].owner
    <3>1. texts \in Texts
      BY Fields DEF UpdateAddress, RequestInv
    <3> QED
      BY <1>3, <1>5, <3>1 DEF Found, AddressRow
  <2>3. UNCHANGED <<customers, homeBar>>
    <3> HIDE DEF texts
    <3> QED
      BY <1>3, <1>5, <2>1, <2>2, DataAssumption DEF UpdateAddress, homeBar, Found
  <2>4. Dir!Change(q)
    BY <1>2, <1>3, <1>4, <1>5, <2>3 DEF Dir!Change, Dir!EditAddress, Dir!directory
  <2>5. wrote' = [wrote EXCEPT ![r] = TRUE] /\ code'[r] = "OK"
    BY <1>5 DEF UpdateAddress, Wrote, Reply
  <2> QED
    BY <1>1, <2>4, <2>5, ActsIf
<1>6. CASE ~Found(req[r])
  <2>1. UNCHANGED <<customers, homeBar, wrote>>
    BY <1>6 DEF UpdateAddress, homeBar
  <2>2. CASE pc[r] = "updateAddress"
    <3>1. code'[r] = "ADDRESS_NOT_FOUND"
      BY <1>6, <2>2 DEF UpdateAddress, Reply
    <3>2. Dir!Justified(q)
      BY <1>2, <1>3, <1>4, <1>6, <2>2 DEF Dir!Justified
    <3> QED
      BY <1>1, <2>1, <3>1, <3>2, RefusesIf
  <2>3. CASE pc[r] # "updateAddress"
    <3>1. code'[r] = "OK"
      BY <1>6, <2>3 DEF UpdateAddress, Reply
    <3>2. Dir!Overtaken(q)
      BY <1>2, <1>3, <1>4, <1>6, <2>3 DEF Dir!Overtaken
    <3> QED
      BY <1>1, <2>1, <3>1, <3>2, SucceedsIf
  <2> QED
    BY <2>2, <2>3
<1> QED
  BY <1>5, <1>6

\* Deleting an address acts or is refused.
LEMMA DeleteStatement ==
    ASSUME TypeOK, RequestInv, AnswerInv, NEW r \in Requests, DeleteAddress(r)
    PROVE  Dir!Act(r) \/ Dir!Refuse(r)
<1> USE DEF TypeOK
<1> DEFINE q == askedBar[r]
<1>1. Statement(r) /\ pc[r] # "refresh" /\ pc'[r] = "respond"
  BY DEF Statement, Step, DeleteAddress, Receive, Answer, Reply
<1>2. q.op = req[r].op /\ q.customer = req[r].customer /\ q.address = req[r].address
  BY <1>1, StatementFrame DEF Statement
<1>3. /\ req[r].address \in Addresses /\ req[r].customer \in Customers
      /\ req[r].op = "DeleteAddress"
  BY Fields DEF DeleteAddress, Doing
<1>4. Found(req[r]) <=> homeBar[q.address] = q.customer
  BY <1>2, <1>3, FoundHome
<1>5. CASE Found(req[r])
  <2>1. homeBar' = [homeBar EXCEPT ![q.address] = None] /\ UNCHANGED customers
    BY <1>2, <1>3, <1>5 DEF DeleteAddress, homeBar
  <2>2. Dir!Change(q)
    BY <1>2, <1>3, <1>4, <1>5, <2>1 DEF Dir!Change, Dir!MoveOut
  <2>3. wrote' = [wrote EXCEPT ![r] = TRUE] /\ code'[r] = "OK"
    BY <1>5 DEF DeleteAddress, Wrote, Reply
  <2> QED
    BY <1>1, <2>2, <2>3, ActsIf
<1>6. CASE ~Found(req[r])
  <2>1. UNCHANGED <<customers, homeBar, wrote>> /\ code'[r] = "ADDRESS_NOT_FOUND"
    BY <1>6 DEF DeleteAddress, Reply, homeBar
  <2>2. Dir!Justified(q)
    BY <1>2, <1>3, <1>4, <1>6 DEF Dir!Justified
  <2> QED
    BY <1>1, <2>1, <2>2, RefusesIf
<1> QED
  BY <1>5, <1>6

-----------------------------------------------------------------------------
(* The refinement.                                                         *)

RefinementInv == HybridInv /\ FreshInv

\* The initial states are initial states of Directory.
LEMMA InitRefines == Init => RefinementInv /\ Dir!Init
<1> SUFFICES ASSUME Init
             PROVE  FreshInv /\ Dir!Init
  BY InitInv DEF RefinementInv
<1>1. FreshInv
  BY DEF Init, FreshInv
<1>2. Dir!Init
  BY DEF Init, Dir!Init, homeBar, askedBar, replyBar
<1> QED
  BY <1>1, <1>2

\* Every step of a request is one of its steps in Directory, or is not seen.
LEMMA StepRefines ==
    ASSUME RefinementInv, NEW r \in Requests, Step(r)
    PROVE  Dir!Next \/ UNCHANGED Dir!vars
<1>1. TypeOK /\ RequestInv /\ AnswerInv /\ FreshInv /\ NoOrphans
  BY DEF RefinementInv, HybridInv
<1>2. CASE Receive(r) \/ Answer(r) \/ StatementFails(r)
  BY <1>1, <1>2, ReceiveArrives, AnswerLeaves, FailureFails DEF Dir!Next
<1>3. CASE InsertCustomer(r) \/ UpdateCustomer(r) \/ DeleteCustomer(r)
  BY <1>1, <1>3, CustomerStatements DEF Dir!Next
<1>4. CASE Read(r)
  BY <1>1, <1>4, ReadStatement DEF Dir!Next
<1>5. CASE CountAddresses(r) \/ GetAddress(r) \/ UpsertSelect(r)
  BY <1>1, <1>5, LookingStatements DEF Dir!Next
<1>6. CASE InsertAddress(r) \/ Refresh(r)
  BY <1>1, <1>6, InsertingStatements DEF Dir!Next
<1>7. CASE UpdateAddress(r) \/ DeleteAddress(r)
  BY <1>1, <1>7, UpdateStatement, DeleteStatement DEF Dir!Next
<1> QED
  BY <1>2, <1>3, <1>4, <1>5, <1>6, <1>7 DEF Step

\* The inductive invariant of the refinement: HybridInv, of which it uses that
\* addresses have customers and who has written, and that new ids are new.
THEOREM RefinementCorrect == Spec => []RefinementInv
<1>1. RefinementInv /\ [Next]_vars => RefinementInv'
  <2>1. CASE UNCHANGED vars
    BY <2>1, StepInv DEF RefinementInv, FreshInv, vars
  <2>2. ASSUME RefinementInv, NEW r \in Requests, Step(r)
        PROVE  RefinementInv'
    <3>1. HybridInv'
      BY <2>2, StepInv DEF RefinementInv, Next, Step
    <3>2. FreshInv'
      BY <2>2, FreshStep DEF RefinementInv, HybridInv
    <3> QED
      BY <3>1, <3>2 DEF RefinementInv
  <2> QED
    BY <2>1, <2>2 DEF Next, Step
<1> QED
  BY <1>1, InitRefines, PTL DEF Spec

\* Every request of the service acts on its tables at most once and at one
\* moment, and its answer tells the truth about that.
THEOREM Implements == Spec => ActsAtOnce
<1>1. RefinementInv /\ [Next]_vars => [Dir!Next]_(Dir!vars)
  <2>1. CASE UNCHANGED vars
    BY <2>1 DEF vars, Dir!vars, homeBar, askedBar, replyBar
  <2>2. ASSUME RefinementInv, NEW r \in Requests, Step(r)
        PROVE  [Dir!Next]_(Dir!vars)
    BY <2>2, StepRefines
  <2> QED
    BY <2>1, <2>2 DEF Next, Step
<1> QED
  BY <1>1, InitRefines, RefinementCorrect, PTL DEF Spec, ActsAtOnce, Dir!Spec
=============================================================================
