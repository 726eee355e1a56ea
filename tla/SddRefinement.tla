--------------------------- MODULE SddRefinement ----------------------------
(***************************************************************************)
(* customer-sdd implements Registry.                                       *)
(***************************************************************************)
EXTENDS SddInvariants

askedBar == [r \in Requests |-> IF pc[r] = "idle" THEN None ELSE req[r]]

Outcome(c) ==
    CASE c = "OK"      -> "success"
      [] c = "ERR-007" -> "failure"
      [] OTHER         -> "refusal"

verdictBar == [r \in Requests |-> IF pc[r] = "respond" THEN Outcome(code[r]) ELSE "none"]

WantedStatus(q) == IF q.op \in {"DeleteCustomer", "DeleteAddress"} THEN "DELETED" ELSE "ACTIVE"

WantedRow(q) == [status |-> WantedStatus(q), email |-> q.email, ident |-> q.ident]

Compares(q) == IF q.op = "UpdateCustomer" THEN {"status", "email", "ident"} ELSE {"status"}

Rewrites == {"UpdateCustomer", "DeleteCustomer", "UpdateAddress", "DeleteAddress"}

\* The version of the row that the request is about.
Draft(r) ==
    IF req[r].op \in {"UpdateAddress", "DeleteAddress"} THEN newAddresses[r][req[r].address]
    ELSE newCustomers[r][req[r].customer]

\* Until the answer a column counts as noticed if the re-read row has it as
\* wanted; of these, the draft can differ from what is wanted in what it kept.
ColumnsSeen(r) ==
    IF loaded[r] # None THEN {k \in Compares(req[r]) : loaded[r][k] = WantedRow(req[r])[k]}
    ELSE IF pc[r] = "respond" /\ code[r] = "OK" /\ req[r].op \in Rewrites
      THEN {k \in Compares(req[r]) : Draft(r)[k] # WantedRow(req[r])[k]}
    ELSE {}

FactsSeen(r) ==
    IF pc[r] \in {"getCustomer", "lockCustomer", "respond"} THEN {}
    ELSE (IF req[r].op # "CreateCustomer" THEN {"customer"} ELSE {})
         \cup (IF req[r].op \in {"UpdateAddress", "DeleteAddress"} /\ pc[r] \in {"reload", "writeAddress"}
                 THEN {"address"} ELSE {})
         \cup (IF code[r] = "ERR-002" THEN {"rival"} ELSE {})

Seen(r) == IF pc[r] = "idle" THEN {} ELSE FactsSeen(r) \cup ColumnsSeen(r)

noticedBar == [r \in Requests |-> Seen(r)]

Reg == INSTANCE Registry WITH
    restored <- revived, asked <- askedBar, noticed <- noticedBar,
    verdict <- verdictBar, faults <- failures

ASSUME QuestionAssumption == None \notin Reg!Questions

\* flask_app.py commits after the answer: whatever was in flight meanwhile, a
\* refusal was justified and publishes nothing, and a success publishes in one
\* step what was asked for, but for the columns that update() found unchanged.
ActsAtCommit == Reg!Spec

-----------------------------------------------------------------------------
(* What the transaction of a request has prepared, the invariant behind it. *)

\* A column of a draft is as wanted, or as the newest row has it because the
\* re-read row had it as wanted.
ColumnOK(r, k, draft, newest) ==
    \/ draft[k] = WantedRow(req[r])[k]
    \/ /\ draft[k] = newest[k]
       /\ loaded[r] # None => loaded[r][k] = WantedRow(req[r])[k]

CustomerDraftOK(r) ==
    LET c == req[r].customer  draft == newCustomers[r][c] IN
    /\ req[r].op = "CreateCustomer" /\ draft # None => draft = WantedRow(req[r])
    /\ req[r].op = "UpdateCustomer" =>
          /\ pc[r] \in {"reload", "writeCustomer"} => entity[r] = WantedRow(req[r])
          /\ draft # None => \A k \in {"status", "email", "ident"} : ColumnOK(r, k, draft, customers[c])
          /\ Proceeds(r) /\ pc[r] \in {"emailIndex", "identIndex", "list", "respond"} => draft # None
    /\ req[r].op = "DeleteCustomer" /\ draft # None => ColumnOK(r, "status", draft, customers[c])

AddressDraftOK(r) ==
    LET c == req[r].customer  a == req[r].address  draft == newAddresses[r][a] IN
    /\ req[r].op \in {"UpdateAddress", "DeleteAddress"} =>
          /\ \A b \in Addresses : newAddresses[r][b] # None => b = a
          /\ pc[r] \in {"reload", "writeAddress"} =>
                addresses[a].owner = c /\ entity[r].status = WantedStatus(req[r])
          /\ pc[r] = "respond" /\ code[r] = "OK" =>
                /\ draft # None /\ addresses[a].owner = c
                /\ ColumnOK(r, "status", draft, addresses[a])
    /\ req[r].op = "CreateAddress" =>
          /\ pc[r] # "respond" => todo[r] = req[r].fresh
          /\ pc[r] = "respond" /\ code[r] = "OK" => \A b \in req[r].fresh : newAddresses[r][b] # None
    /\ req[r].op \in {"UpdateCustomer", "Read"} => \A b \in Addresses : newAddresses[r][b] = None

DraftOK(r) ==
    /\ loaded[r] # None =>
          /\ req[r].op \in Rewrites
          /\ pc[r] \in {"writeCustomer", "writeAddress", "emailIndex", "identIndex",
                        "selectAddresses", "cascade", "list"}
    /\ req[r].op \in Rewrites /\ pc[r] \in {"emailIndex", "identIndex", "selectAddresses", "cascade", "list"}
          => loaded[r] \in CustomerRow
    /\ pc[r] = "findIdent" => code[r] \in {"NONE", "ERR-002"}
    /\ pc[r] \notin {"findIdent", "respond"} => code[r] = "NONE"
    /\ CustomerDraftOK(r)
    /\ AddressDraftOK(r)

DraftInv ==
    /\ \A r \in Requests : DraftOK(r)
    /\ \A a \in revived : VisibleAddress(a)
=============================================================================
